---- MODULE Spec2Model ----
(***************************************************************************)
(* Symbol atlas generator (tools/symbols/generate_symbols.py).             *)
(*                                                                         *)
(* Spec      : main() stamping the four regions of the atlas and emitting  *)
(*             the symbol map, one step per texture.paste call.            *)
(* SpecSdf   : bitmap_to_sdf applied to bounded input bitmaps.             *)
(* SpecParams: compute_msdf_params applied to bounded font tables.         *)
(* SpecRender: render_tui_chars, render_emojis and render_cjk_chars        *)
(*             resolving the slots of one region.                          *)
(* SpecConfig: TextureConfig constructed for a requested size.             *)
(***************************************************************************)
EXTENDS Integers, Sequences, FiniteSets, TLC

VARIABLES
    cfg,          \* the global TextureConfig instance (main, line 1304)
    all_sprites,  \* len(all_sprites): number of sprite tiles loaded
    tui_txt,      \* parse_tui_txt's result: [tui_chars, emojis], lists of code points
    cjk_chars,    \* the parsed CJK list, as [len, period]: char i is i % period
    pc,           \* position of main: "sprite","tui","emoji","cjk","save","map","done"
    block_idx,    \* loop counters of the stamping loops
    row,
    col,
    sprite_idx,   \* running counters of stamped tiles per region
    tui_idx,
    emoji_idx,
    cjk_idx,
    texture,      \* the canvas: the set of pixel rectangles written so far
    pasted,       \* the last texture.paste call: region, index, position, size
    saved,        \* what texture.save wrote (the covered rectangles), or "none"
    symbol_map,   \* the document json.dump wrote, or "none"
    bitmap_img,   \* bitmap_to_sdf: the RGBA input image
    spread,       \* bitmap_to_sdf: the spread argument
    sdf_img,      \* bitmap_to_sdf: the returned image (empty before the call)
    font,         \* compute_msdf_params: the tables of the font file
    target,       \* compute_msdf_params: [w, h, padding (percent), pxrange]
    msdf_params,  \* compute_msdf_params: the returned (scale, tx, ty), as fractions
    render_in,    \* render_*: the arguments and the environment of the call
    render_pc,    \* render_*: "idle", "start", "loop", "returned", "aborted"
    font_params,  \* render_*: [text, graphic], the dicts font -> (scale, tx, ty)
    slot_i,       \* render_*: the loop index i
    symbols,      \* render_*: the list of tiles, as runs [tile, n] of equal tiles
    msdf_count,
    sdf_fallback_count,
    resolved,     \* render_*: how the last slot was resolved
    msdfgen_calls,\* the render_char_msdfgen calls made: [cp, font, graphic, params]
    size_arg,     \* TextureConfig(size): the requested size
    config_error, \* TextureConfig(size): the exception raised, "none" if none
    font_files,   \* the font files on disk: path -> FontFile
    font_cmaps,   \* _font_cmaps: path -> the code points of the cached cmap
    ttfont_opens, \* path -> how often TTFont(path) has been constructed
    quartz_font,  \* the font as CoreText measures it
    size_call,    \* render_char_quartz: [width, height, padding, fill_cell] of the call
    solve_lo,     \* solve_font_size_for_height: lo, hi, on the grid of sizes
    solve_hi,
    bisect_i,     \* solve_font_size_for_height: iterations done
    size_pc,      \* "idle", "bisect", "raised"
    size_h,       \* the value solve_font_size_for_height returned
    width_worst,  \* apply_width_constraint: the worst ink width measured
    actual_font_size, \* render_char_quartz: [base, factor], the size base * factor
    font_size_cache,  \* _font_size_cache: key -> size
    font_calls,   \* calls made so far
    total_chars,  \* generate_cjk: len(cjk_chars)
    gen_pc,       \* generate_cjk: "parsed", "exit", "planned", "layer1", "done"
    layout,       \* generate_cjk: the layout computed in step 2
    gen_pastes    \* generate_cjk: the calls of paste_images_to_texture made

mainVars == <<cfg, all_sprites, tui_txt, cjk_chars, pc, block_idx, row, col,
              sprite_idx, tui_idx, emoji_idx, cjk_idx, texture, pasted, saved, symbol_map>>

sdfVars == <<bitmap_img, spread, sdf_img>>
parVars == <<font, target, msdf_params>>

renVars == <<render_in, render_pc, font_params, slot_i, symbols, msdf_count,
             sdf_fallback_count, resolved, msdfgen_calls>>
cfgVars == <<size_arg, config_error>>

fontVars == <<font_files, font_cmaps, ttfont_opens, quartz_font, size_call, solve_lo, solve_hi,
              bisect_i,
              size_pc, size_h, width_worst, actual_font_size, font_size_cache, font_calls>>

genVars == <<total_chars, gen_pc, layout, gen_pastes>>

toolVars == <<fontVars, genVars>>

vars == <<mainVars, sdfVars, parVars, renVars, cfgVars, toolVars>>

-----------------------------------------------------------------------------
(* Bounds of the model, and the sizes of the shipped inputs *)

\* largest number of C64 source sheets a run is given
MaxC64Sheets == 160
\* longest CJK list a run is given
MaxCjkLen == 4097

\* number of entries of C64_SOURCES as shipped
NumC64Sources == 4
\* symbols cut from one C64 sheet by load_c64_block (16 x 16)
SheetSymbols == 256

-----------------------------------------------------------------------------
(* TextureConfig *)

\* __init__: grid constants and linear bases, the same at every size
GridConstants ==
    [ BLOCKS_PER_ROW |-> 16,
      SPRITE_CHARS_PER_BLOCK |-> 256,
      SPRITE_BLOCKS |-> 160,
      SPRITE_ROWS |-> 10,
      TUI_CHARS_PER_BLOCK |-> 256,
      TUI_BLOCKS_START |-> 160,
      TUI_BLOCKS_COUNT |-> 10,
      EMOJI_CHARS_PER_BLOCK |-> 128,
      EMOJI_BLOCKS_START |-> 170,
      EMOJI_BLOCKS_COUNT |-> 6,
      CJK_GRID_COLS |-> 128,
      CJK_GRID_ROWS |-> 32,
      LINEAR_SPRITE_BASE |-> 0,
      LINEAR_TUI_BASE |-> 40960,
      LINEAR_EMOJI_BASE |-> 43520,
      LINEAR_CJK_BASE |-> 44288 ]

\* _init_pixel_sizes: pixel quantities, scaled by s = self.scale
PixelSizes(s) ==
    [ SPRITE_BLOCK_SIZE |-> 256 * s,
      SPRITE_CHAR_SIZE |-> 16 * s,
      SPRITE_AREA_HEIGHT |-> 2560 * s,
      TUI_BLOCK_WIDTH |-> 256 * s,
      TUI_BLOCK_HEIGHT |-> 512 * s,
      TUI_CHAR_WIDTH |-> 16 * s,
      TUI_CHAR_HEIGHT |-> 32 * s,
      TUI_AREA_START_Y |-> 2560 * s,
      EMOJI_BLOCK_WIDTH |-> 256 * s,
      EMOJI_BLOCK_HEIGHT |-> 512 * s,
      EMOJI_CHAR_SIZE |-> 32 * s,
      EMOJI_AREA_START_X |-> 2560 * s,
      EMOJI_AREA_START_Y |-> 2560 * s,
      CJK_CHAR_SIZE |-> 32 * s,
      CJK_AREA_START_Y |-> 3072 * s,
      TUI_RENDER_WIDTH |-> 40 * s,
      TUI_RENDER_HEIGHT |-> 80 * s,
      TUI_FONT_SIZE |-> 64 * s,
      EMOJI_RENDER_SIZE |-> 64 * s,
      EMOJI_FONT_SIZE |-> 64 * s,
      CJK_RENDER_SIZE |-> 64 * s,
      CJK_FONT_SIZE |-> 56 * s ]

\* variant: one pixel quantity left unscaled
TextureConfig_UnscaledEmojiStart(size) ==
    LET s == size \div 4096
    IN  [size |-> size, scale |-> s] @@ GridConstants
            @@ [PixelSizes(s) EXCEPT !.EMOJI_AREA_START_X = 2560]

TextureConfig(size) ==
    LET s == size \div 4096
    IN  [size |-> size, scale |-> s] @@ GridConstants @@ PixelSizes(s)

\* --size: argparse choices=[4096, 8192]
Sizes == {4096, 8192}

-----------------------------------------------------------------------------
(* The canvas.  Image.paste without a mask overwrites the target rectangle, *)
(* so the canvas is modelled by the rectangles written; rectangles that     *)
(* share a full side are joined, which keeps the covered area exact.        *)

Rect(x, y, w, h) == [x |-> x, y |-> y, w |-> w, h |-> h]

Disjoint(a, b) ==
    \/ a.x + a.w <= b.x
    \/ b.x + b.w <= a.x
    \/ a.y + a.h <= b.y
    \/ b.y + b.h <= a.y

Joinable(a, b) ==
    \/ a.y = b.y /\ a.h = b.h /\ (a.x + a.w = b.x \/ b.x + b.w = a.x)
    \/ a.x = b.x /\ a.w = b.w /\ (a.y + a.h = b.y \/ b.y + b.h = a.y)

Join(a, b) ==
    IF a.y = b.y /\ a.h = b.h
    THEN Rect(IF a.x < b.x THEN a.x ELSE b.x, a.y, a.w + b.w, a.h)
    ELSE Rect(a.x, IF a.y < b.y THEN a.y ELSE b.y, a.w, a.h + b.h)

RECURSIVE Coalesce(_)
Coalesce(S) ==
    IF \E a \in S : \E b \in S \ {a} : Joinable(a, b)
    THEN LET a == CHOOSE u \in S : \E b \in S \ {u} : Joinable(u, b)
             b == CHOOSE u \in S \ {a} : Joinable(a, u)
         IN  Coalesce((S \ {a, b}) \cup {Join(a, b)})
    ELSE S

\* texture.paste(img, (x, y)) for an image of size w x h
Paste(tex, r) ==
    IF \A a \in tex : Disjoint(a, r) THEN Coalesce(tex \cup {r}) ELSE tex \cup {r}

NoPaste == [region |-> "none", idx |-> 0, block |-> 0, row |-> 0, col |-> 0,
            bx |-> 0, by |-> 0, rect |-> Rect(0, 0, 0, 0)]

-----------------------------------------------------------------------------
(* Tile lists handed to the stamping loops *)

\* load_c64_block: every sprite is resized to SPRITE_CHAR_SIZE
SpriteTileSize(c) == <<c.SPRITE_CHAR_SIZE, c.SPRITE_CHAR_SIZE>>
\* render_tui_chars: total tiles, each resized to the TUI cell
TuiImagesLen(c) == c.TUI_BLOCKS_COUNT * c.TUI_CHARS_PER_BLOCK
TuiTileSize(c) == <<c.TUI_CHAR_WIDTH, c.TUI_CHAR_HEIGHT>>
\* render_emojis
EmojiImagesLen(c) == c.EMOJI_BLOCKS_COUNT * c.EMOJI_CHARS_PER_BLOCK
EmojiTileSize(c) == <<c.EMOJI_CHAR_SIZE, c.EMOJI_CHAR_SIZE>>
\* variant: one tile per character of the list, no blank tiles after them
CjkImagesLen_ListLength(c) == cjk_chars.len

\* render_cjk_chars
CjkImagesLen(c) == c.CJK_GRID_COLS * c.CJK_GRID_ROWS
CjkTileSize(c) == <<c.CJK_CHAR_SIZE, c.CJK_CHAR_SIZE>>

\* the character at list position i of the parsed CJK list
CjkChar(l, i) == i % l.period

CjkLists ==
    { [len |-> 0, period |-> 1],
      [len |-> 3500, period |-> 3000],
      [len |-> MaxCjkLen, period |-> MaxCjkLen] }

\* parse_tui_txt: the first TUI character is always the space
TuiTxts ==
    { [tui_chars |-> <<32, 65, 9472>>, emojis |-> <<128512>>],
      [tui_chars |-> <<32>>, emojis |-> <<>>] }

-----------------------------------------------------------------------------
(* The symbol map *)

Min(a, b) == IF a < b THEN a ELSE b

\* the characters of the list l, and the last list position holding ch
CjkCharSet(l) == 0 .. (Min(l.len, l.period) - 1)
CjkLastIndex(l, ch) == ch + l.period * ((l.len - 1 - ch) \div l.period)

\* for i, char in enumerate(cjk_chars): mappings[char] = [i % cols, i // cols]
\* (a later occurrence of a character overwrites the earlier entry)
build_cjk_mappings(c, l) ==
    [ch \in CjkCharSet(l) |->
        LET i == CjkLastIndex(l, ch)
        IN  <<i % c.CJK_GRID_COLS, i \div c.CJK_GRID_COLS>>]

\* variant: the emoji total computed with the TUI chars-per-block
linear_index_TuiPerBlock(c) ==
    [ sprite_base |-> c.LINEAR_SPRITE_BASE,
      sprite_total |-> c.SPRITE_BLOCKS * c.SPRITE_CHARS_PER_BLOCK,
      tui_base |-> c.LINEAR_TUI_BASE,
      tui_total |-> c.TUI_BLOCKS_COUNT * c.TUI_CHARS_PER_BLOCK,
      emoji_base |-> c.LINEAR_EMOJI_BASE,
      emoji_total |-> c.EMOJI_BLOCKS_COUNT * c.TUI_CHARS_PER_BLOCK,
      cjk_base |-> c.LINEAR_CJK_BASE,
      cjk_total |-> c.CJK_GRID_COLS * c.CJK_GRID_ROWS ]

\* the "linear_index" section of the document
linear_index(c) ==
    [ sprite_base |-> c.LINEAR_SPRITE_BASE,
      sprite_total |-> c.SPRITE_BLOCKS * c.SPRITE_CHARS_PER_BLOCK,
      tui_base |-> c.LINEAR_TUI_BASE,
      tui_total |-> c.TUI_BLOCKS_COUNT * c.TUI_CHARS_PER_BLOCK,
      emoji_base |-> c.LINEAR_EMOJI_BASE,
      emoji_total |-> c.EMOJI_BLOCKS_COUNT * c.EMOJI_CHARS_PER_BLOCK,
      cjk_base |-> c.LINEAR_CJK_BASE,
      cjk_total |-> c.CJK_GRID_COLS * c.CJK_GRID_ROWS ]

build_symbol_map(c, tui_chars, emojis, l) ==
    [ version |-> 1,
      regions |->
        [ sprite |-> [type |-> "block",
                      block_range |-> <<0, c.SPRITE_BLOCKS - 1>>,
                      chars_per_block |-> c.SPRITE_CHARS_PER_BLOCK],
          tui |-> [type |-> "block",
                   block_range |-> <<c.TUI_BLOCKS_START,
                                     c.TUI_BLOCKS_START + c.TUI_BLOCKS_COUNT - 1>>,
                   chars_per_block |-> c.TUI_CHARS_PER_BLOCK,
                   symbols |-> tui_chars],
          emoji |-> [type |-> "block",
                     block_range |-> <<c.EMOJI_BLOCKS_START,
                                       c.EMOJI_BLOCKS_START + c.EMOJI_BLOCKS_COUNT - 1>>,
                     chars_per_block |-> c.EMOJI_CHARS_PER_BLOCK,
                     symbols |-> emojis],
          cjk |-> [type |-> "grid",
                   grid_cols |-> c.CJK_GRID_COLS,
                   mappings |-> IF l.len > 0 THEN build_cjk_mappings(c, l) ELSE <<>>] ],
      linear_index |-> linear_index(c) ]

-----------------------------------------------------------------------------
(* bitmap_to_sdf.  An image is [w, h, px], px a function from <<y, x>> to   *)
(* <<r, g, b, a>>.  Distances are kept squared; the 8-bit value is computed  *)
(* in exact arithmetic (the floating-point rounding of numpy is not part of  *)
(* the model).                                                              *)

\* side of the square test images
SdfSize == 9
\* largest spread
MaxSpread == 3
\* width of the free-form test images (two rows high)
SmallWidth == 2

Max(a, b) == IF a > b THEN a ELSE b

Image(w, h, px) == [w |-> w, h |-> h, px |-> px]
NoImage == Image(0, 0, <<>>)

Pixels(img) == (0 .. img.h - 1) \X (0 .. img.w - 1)

AlphaLevels == {0, 127, 128, 255}

\* a white square of the given side at (x0, y0) on a transparent image
SquareBitmap(n, x0, y0, side) ==
    Image(n, n,
          [p \in (0 .. n - 1) \X (0 .. n - 1) |->
              IF /\ y0 <= p[1] /\ p[1] < y0 + side
                 /\ x0 <= p[2] /\ p[2] < x0 + side
              THEN <<255, 255, 255, 255>>
              ELSE <<0, 0, 0, 0>>])

SquareBitmaps ==
    { SquareBitmap(SdfSize, sq[1], sq[2], sq[3]) :
        sq \in { t \in (0 .. SdfSize - 1) \X (0 .. SdfSize - 1) \X (1 .. SdfSize) :
                    t[1] + t[3] <= SdfSize /\ t[2] + t[3] <= SdfSize } }

FreeBitmaps ==
    { Image(SmallWidth, 2, [p \in (0 .. 1) \X (0 .. SmallWidth - 1) |-> <<255, 255, 255, a[p]>>]) :
        a \in [(0 .. 1) \X (0 .. SmallWidth - 1) -> AlphaLevels] }

\* inside = alpha / 255.0 > 0.5
Inside(img) == {p \in Pixels(img) : 2 * img.px[p][4] > 255}

Dist2(p, q) == (p[1] - q[1]) * (p[1] - q[1]) + (p[2] - q[2]) * (p[2] - q[2])

\* how distance_transform_edt answers for an input without any background
\* element, which scipy leaves unspecified: as if a background element sat at
\* index -1 of every axis, or farther than any spread
NoBackgroundOutcomes == {"corner", "far"}

\* distance_transform_edt, squared: from p to the nearest element of zeros
distance_transform_edt2(p, zeros, s, outcome) ==
    IF zeros = {}
    THEN IF outcome = "corner"
         THEN (p[1] + 1) * (p[1] + 1) + (p[2] + 1) * (p[2] + 1)
         ELSE (s + 1) * (s + 1)
    ELSE LET ds == {Dist2(p, q) : q \in zeros}
         IN  CHOOSE d \in ds : \A e \in ds : d <= e

\* floor and ceiling of the square root
RECURSIVE IsqrtIn(_, _, _)
IsqrtIn(n, lo, hi) ==
    IF hi - lo <= 1 THEN lo
    ELSE LET mid == (lo + hi) \div 2
         IN  IF mid * mid <= n THEN IsqrtIn(n, mid, hi) ELSE IsqrtIn(n, lo, mid)

\* the root of a 31-bit number is at most 46340
Isqrt(n) == IsqrtIn(n, 0, Min(n, 46340) + 1)
IsqrtUp(n) == LET r == Isqrt(n) IN IF r * r = n THEN r ELSE r + 1

\* variant: the field normalised without the 0.5 offset of the edge
sdf_u8_NoOffset(is_inside, d2, s) ==
    IF is_inside
    THEN Min(255, Isqrt(255 * 255 * d2) \div (2 * s))
    ELSE 0

\* sdf = +-dist / spread * 0.5 + 0.5; clip to [0, 1]; (sdf * 255).astype(uint8):
\* floor((255 s + 255 d) / 2s) inside and floor((255 s - 255 d) / 2s) outside,
\* clipped, with d the square root of d2
sdf_u8(is_inside, d2, s) ==
    IF is_inside
    THEN Min(255, (255 * s + Isqrt(255 * 255 * d2)) \div (2 * s))
    ELSE Max(0, (255 * s - IsqrtUp(255 * 255 * d2)) \div (2 * s))

bitmap_to_sdf(img, s, outcome) ==
    LET inside == Inside(img)
        outside == Pixels(img) \ inside
        value(p) ==
            IF p \in inside
            THEN sdf_u8(TRUE, distance_transform_edt2(p, outside, s, outcome), s)
            ELSE sdf_u8(FALSE, distance_transform_edt2(p, inside, s, outcome), s)
    IN  Image(img.w, img.h,
              [p \in Pixels(img) |-> LET u == value(p) IN <<u, u, u, 255>>])

SdfIdle == bitmap_img = NoImage /\ spread = 0 /\ sdf_img = NoImage

-----------------------------------------------------------------------------
(* get_font_metrics and compute_msdf_params.  Fractions are pairs           *)
(* <<numerator, denominator>> with a positive denominator; padding is given *)
(* in percent.                                                              *)

\* largest --msdf-pxrange
MaxPxrange == 4

Abs(n) == IF n < 0 THEN -n ELSE n

RECURSIVE Gcd(_, _)
Gcd(a, b) == IF b = 0 THEN a ELSE Gcd(b, a % b)

\* n / d in lowest terms, d # 0
Frac(n, d) ==
    LET g == Gcd(Abs(n), Abs(d))
        sgn == IF d < 0 THEN -1 ELSE 1
    IN  <<sgn * (n \div g), sgn * (d \div g)>>

Whole(n) == <<n, 1>>
FracEq(a, b) == a[1] * b[2] = b[1] * a[2]
FracAdd(a, b) ==
    LET g == Gcd(a[2], b[2])
    IN  Frac(a[1] * (b[2] \div g) + b[1] * (a[2] \div g), (a[2] \div g) * b[2])
FracSub(a, b) == FracAdd(a, <<-b[1], b[2]>>)
FracMul(a, b) ==
    LET x == Frac(a[1], b[2])
        y == Frac(b[1], a[2])
    IN  <<x[1] * y[1], x[2] * y[2]>>
FracDiv(a, b) == FracMul(a, Frac(b[2], b[1]))

\* the code points whose advance is tried: 'A', 'a', '0'
AdvanceProbes == <<65, 97, 48>>

FontTables ==
    { [ unitsPerEm |-> upm, sTypoAscender |-> a[1], usWinAscent |-> a[2],
        sTypoDescender |-> d[1], usWinDescent |-> d[2], cmap |-> cm,
        hmtx |-> [A |-> 600, a |-> 550, zero |-> 620] ] :
        upm \in {1000, 2048},
        a \in {<<800, 950>>, <<1900, 1800>>},
        d \in {<<-200, 250>>, <<-500, 400>>},
        cm \in { <<>>, (65 :> "A"), (97 :> "a") @@ (48 :> "zero") } }

NoFont == [ unitsPerEm |-> 1, sTypoAscender |-> 0, usWinAscent |-> 0,
            sTypoDescender |-> 0, usWinDescent |-> 0, cmap |-> <<>>,
            hmtx |-> [A |-> 600, a |-> 550, zero |-> 620] ]

\* the advance of the first probe the cmap has a glyph for, else upm
RECURSIVE ProbeAdvance(_, _)
ProbeAdvance(f, k) ==
    IF k > Len(AdvanceProbes) THEN f.unitsPerEm
    ELSE LET cp == AdvanceProbes[k]
         IN  IF cp \in DOMAIN f.cmap /\ f.cmap[cp] # ""
             THEN f.hmtx[f.cmap[cp]]
             ELSE ProbeAdvance(f, k + 1)

get_font_metrics(f) ==
    LET ascent == Max(f.sTypoAscender, f.usWinAscent)
        descent == Min(f.sTypoDescender, -f.usWinDescent)
        advance == ProbeAdvance(f, 1)
    IN  [ upm |-> f.unitsPerEm,
          ascent |-> ascent,
          descent |-> descent,
          advance |-> advance,
          advance_em |-> Frac(advance, f.unitsPerEm),
          total_em |-> Frac(ascent - descent, f.unitsPerEm) ]

\* variant: the descent line placed with the ascent
compute_msdf_params_AscentShift(f, target_w, target_h, padding) ==
    LET m == get_font_metrics(f)
        scale == FracDiv(FracMul(Whole(target_h), Frac(padding, 100)), m.total_em)
        ty == Frac(m.ascent, m.upm)
        tx == FracDiv(FracSub(FracDiv(Whole(target_w), scale), m.advance_em), Whole(2))
    IN  [scale |-> scale, tx |-> tx, ty |-> ty]

compute_msdf_params(f, target_w, target_h, padding) ==
    LET m == get_font_metrics(f)
        scale == FracDiv(FracMul(Whole(target_h), Frac(padding, 100)), m.total_em)
        ty == Frac(-m.descent, m.upm)
        tx == FracDiv(FracSub(FracDiv(Whole(target_w), scale), m.advance_em), Whole(2))
    IN  [scale |-> scale, tx |-> tx, ty |-> ty]

NoParams == [scale |-> Whole(0), tx |-> Whole(0), ty |-> Whole(0)]
NoTarget == [w |-> 0, h |-> 0, padding |-> 0, pxrange |-> 0]

\* the TUI cell and the CJK cell at both texture sizes
TargetCells ==
    UNION { { <<c.TUI_CHAR_WIDTH, c.TUI_CHAR_HEIGHT>>, <<c.CJK_CHAR_SIZE, c.CJK_CHAR_SIZE>> } :
            c \in {TextureConfig(size) : size \in Sizes} }

\* text_padding 0.92 (the default) and 1.0 (graphic characters)
Paddings == {92, 100}

ParIdle == font = NoFont /\ target = NoTarget /\ msdf_params = NoParams

-----------------------------------------------------------------------------
(* render_tui_chars, render_emojis, render_cjk_chars.  A tile is            *)
(* [kind, w, h, rgba]; rgba is the fill of a blank tile.  The list symbols  *)
(* is kept as runs of equal tiles.  The outcome of a call of msdfgen or of  *)
(* the Quartz rasterizer is chosen by the environment.                      *)

\* text_padding of render_char_quartz when the caller passes none (percent)
DefaultTextPadding == 92

\* is_graphic_char: U+2500-257F, U+2580-259F, U+2800-28FF, cp >= U+E000
is_graphic_char(cp) ==
    \/ (9472 <= cp /\ cp <= 9599)
    \/ (9600 <= cp /\ cp <= 9631)
    \/ (10240 <= cp /\ cp <= 10495)
    \/ cp >= 57344

\* a font file: whether the path exists, whether fontTools reads its metric
\* tables, the tables, and the code points of its cmap
FontFile(exists, readable, tables, glyphs) ==
    [exists |-> exists, readable |-> readable, tables |-> tables, glyphs |-> glyphs]

NoFontFile == FontFile(FALSE, FALSE, NoFont, {})

TuiTables ==
    [ unitsPerEm |-> 2048, sTypoAscender |-> 1900, usWinAscent |-> 1800,
      sTypoDescender |-> -500, usWinDescent |-> 400, cmap |-> (65 :> "A"),
      hmtx |-> [A |-> 600, a |-> 550, zero |-> 620] ]

BrailleTables ==
    [ unitsPerEm |-> 1000, sTypoAscender |-> 800, usWinAscent |-> 950,
      sTypoDescender |-> -200, usWinDescent |-> 250, cmap |-> <<>>,
      hmtx |-> [A |-> 600, a |-> 550, zero |-> 620] ]

\* ' ', 'A', 'T', 'g', U+2500, U+E0B0 are in the TUI font; U+2588, U+2801 in
\* the braille font; U+FF21 is in neither
TuiFontFiles ==
    { NoFontFile,
      FontFile(TRUE, FALSE, NoFont, {32, 65, 84, 103, 9472, 57520}),
      FontFile(TRUE, TRUE, TuiTables, {32, 65, 84, 103, 9472, 57520}) }

BrailleFontFiles == { NoFontFile, FontFile(TRUE, TRUE, BrailleTables, {9608, 10241}) }

\* the character lists handed to the render functions
TuiCharLists == { <<32>>, <<32, 103, 84>>, <<32, 9472, 10241>>, <<65313, 57520, 9608>> }
EmojiLists == { <<>>, <<128512, 128513>> }

\* longest emoji list a run is given, one more than the region holds
MaxEmojiLen == 769
CjkCharLists == { <<>>, <<20013, 25991>> }

\* slots of the fix and cache directories that hold a file NNNN_*
FileSlots == { {}, {1}, {0, 5} }

\* variant: the placeholder transparent in every mode
BlankTile_Transparent(w, h, use_msdf) ==
    [kind |-> "blank", w |-> w, h |-> h, rgba |-> <<0, 0, 0, 0>>]

\* Image.new("RGBA", (w, h), (0, 0, 0, 255)) if use_msdf else (0, 0, 0, 0)
BlankTile(w, h, use_msdf) ==
    [kind |-> "blank", w |-> w, h |-> h,
     rgba |-> IF use_msdf THEN <<0, 0, 0, 255>> ELSE <<0, 0, 0, 0>>]

\* a rendered or loaded image
GlyphTile(kind, w, h) == [kind |-> kind, w |-> w, h |-> h, rgba |-> <<>>]

NoTile == GlyphTile("none", 0, 0)

\* variant: the tile appended as rendered
ResizeTo_AsRendered(tile, cell) == tile

\* if symbol.size != cell: symbol = symbol.resize(cell)
ResizeTo(tile, cell) == [tile EXCEPT !.w = cell[1], !.h = cell[2]]

\* symbols.append(symbol)
AppendRun(runs, tile, n) ==
    IF n = 0 THEN runs
    ELSE IF Len(runs) > 0 /\ runs[Len(runs)].tile = tile
         THEN [runs EXCEPT ![Len(runs)].n = @ + n]
         ELSE Append(runs, [tile |-> tile, n |-> n])

RECURSIVE RunsLen(_)
RunsLen(runs) == IF runs = <<>> THEN 0 ELSE runs[1].n + RunsLen(Tail(runs))

RegionCell(c, region) ==
    IF region = "tui" THEN TuiTileSize(c)
    ELSE IF region = "emoji" THEN EmojiTileSize(c) ELSE CjkTileSize(c)

RegionTotal(c, region) ==
    IF region = "tui" THEN TuiImagesLen(c)
    ELSE IF region = "emoji" THEN EmojiImagesLen(c) ELSE CjkImagesLen(c)

\* find_tui_font_for_char: the TUI font if its cmap has cp, else the braille
\* font if it exists and its cmap has cp, else None
find_tui_font_for_char(in, cp) ==
    IF in.tui_font.exists /\ cp \in in.tui_font.glyphs THEN "tui"
    ELSE IF in.braille_font.exists /\ cp \in in.braille_font.glyphs THEN "braille"
    ELSE "none"

FontNamed(in, name) ==
    IF name = "tui" THEN in.tui_font
    ELSE IF name = "braille" THEN in.braille_font ELSE in.cjk_font

\* the dict built by the try blocks: a font whose path exists gets an entry
\* unless computing its parameters raises, which is caught with a warning
ParamsDict(in, c, names, cell, padding) ==
    [name \in {x \in names : FontNamed(in, x).exists /\ FontNamed(in, x).readable} |->
        compute_msdf_params(FontNamed(in, name).tables, cell[1], cell[2], padding)]

\* font_params_text, font_params_graphic (TUI) and cjk_font_params (CJK)
PrecomputeParams(in, c) ==
    IF ~in.use_msdf \/ in.region = "emoji" THEN [text |-> <<>>, graphic |-> <<>>]
    ELSE IF in.region = "tui"
    THEN [ text |-> ParamsDict(in, c, {"tui", "braille"}, TuiTileSize(c), in.text_padding),
           graphic |-> ParamsDict(in, c, {"tui", "braille"}, TuiTileSize(c), 100) ]
    ELSE [ text |-> ParamsDict(in, c, {"cjk"}, CjkTileSize(c), in.text_padding),
           graphic |-> <<>> ]

\* variant: the parameters fitted to the glyph (msdfgen -autoframe)
SelectParams_PerGlyph(fp, cp, font_path) ==
    LET d == IF is_graphic_char(cp) THEN fp.graphic ELSE fp.text
    IN  [d[font_path] EXCEPT !.ty = FracAdd(@, Frac(cp % 7, 100))]

\* params = font_params_graphic if is_graphic_char(char) else font_params_text;
\* s, tx, ty = params[font_path]
SelectParams(fp, cp, font_path) ==
    LET d == IF is_graphic_char(cp) THEN fp.graphic ELSE fp.text
    IN  d[font_path]

\* supersampling factor of the bitmap tier of the distance-field branches
sdf_scale == 2

\* render_w, render_h (TUI) and render_size (CJK) of the bitmap tier
FieldRenderSize(c, region) ==
    IF region = "tui"
    THEN <<c.TUI_RENDER_WIDTH * sdf_scale, c.TUI_RENDER_HEIGHT * sdf_scale>>
    ELSE <<c.CJK_RENDER_SIZE * sdf_scale, c.CJK_RENDER_SIZE * sdf_scale>>

\* bitmap_to_sdf(rendered, spread=msdf_pxrange * sdf_scale)
SdfSpread(in) == in.msdf_pxrange * sdf_scale

\* render_char_quartz: padding = 1.0 if fill_cell else text_padding
QuartzPadding(fill_cell, text_padding) == IF fill_cell THEN 100 ELSE text_padding

MsdfgenOutcomes == {"image", "fail"}
QuartzOutcomes == {"image", "none", "raise"}

NoCall == [cp |-> 0, font |-> "none", graphic |-> FALSE, params |-> NoParams]

\* what one iteration of a render loop did
Resolution(tried, terminal, tile, call, bitmap_padding) ==
    [tried |-> tried, terminal |-> terminal, tile |-> tile, call |-> call,
     bitmap_padding |-> bitmap_padding]

NoResolution == Resolution(<<>>, "none", NoTile, NoCall, 0) @@ [i |-> -1, cp |-> 0]

\* whether slot i has a file in the directory listing
HasFile(files, i) == i \in files

\* render_tui_chars, the use_msdf branch of one iteration and the blank fill
ResolveTuiField(in, fp, c, i, m_out, q_out) ==
    LET cp == in.chars[i + 1]
        cell == TuiTileSize(c)
        is_braille == 10240 <= cp /\ cp <= 10495
        font_path == find_tui_font_for_char(in, cp)
        params == IF is_graphic_char(cp) THEN fp.graphic ELSE fp.text
        try_vector == /\ ~in.tui_sdf /\ ~is_braille
                      /\ font_path # "none" /\ font_path \in DOMAIN params
        call == IF try_vector
                THEN [cp |-> cp, font |-> font_path, graphic |-> is_graphic_char(cp),
                      params |-> SelectParams(fp, cp, font_path)]
                ELSE NoCall
        vector_ok == try_vector /\ m_out = "image"
        try_bitmap == ~vector_ok /\ in.HAS_QUARTZ
        bpad == IF try_bitmap THEN QuartzPadding(is_graphic_char(cp), in.text_padding) ELSE 0
        tried == (IF try_vector THEN <<"vector">> ELSE <<>>)
                    \o (IF try_bitmap THEN <<"bitmap">> ELSE <<>>)
    IN  IF vector_ok
        THEN Resolution(tried, "Vector", GlyphTile("msdf", cell[1], cell[2]), call, bpad)
        ELSE IF try_bitmap /\ q_out = "raise"
        THEN Resolution(tried, "Raised", NoTile, call, bpad)
        ELSE IF try_bitmap /\ q_out = "image"
        THEN Resolution(tried, "BitmapConvertedToField",
                        ResizeTo(GlyphTile("sdf", FieldRenderSize(c, "tui")[1], FieldRenderSize(c, "tui")[2]), cell),
                        call, bpad)
        ELSE Resolution(tried, "Blank", BlankTile(cell[1], cell[2], TRUE), call, bpad)

\* render_tui_chars, the bitmap branch: fix directory, cache, Quartz, blank
ResolveTuiBitmap(in, c, i, q_out) ==
    LET cell == TuiTileSize(c)
        from_fix == HasFile(in.fix_files, i)
        from_cache == ~from_fix /\ in.use_cache /\ HasFile(in.cache_files, i)
        try_bitmap == ~from_fix /\ ~from_cache /\ i < Len(in.chars) /\ in.HAS_QUARTZ
        bpad == IF try_bitmap
                THEN QuartzPadding(is_graphic_char(in.chars[i + 1]), in.text_padding) ELSE 0
        tried == (IF from_fix \/ from_cache THEN <<"file">> ELSE <<>>)
                    \o (IF try_bitmap THEN <<"bitmap">> ELSE <<>>)
    IN  IF from_fix \/ from_cache
        THEN Resolution(tried, "File", ResizeTo(GlyphTile("file", 16, 32), cell), NoCall, bpad)
        ELSE IF try_bitmap /\ q_out = "raise"
        THEN Resolution(tried, "Raised", NoTile, NoCall, bpad)
        ELSE IF try_bitmap /\ q_out = "image"
        THEN Resolution(tried, "Bitmap",
                        ResizeTo(GlyphTile("bitmap", c.TUI_RENDER_WIDTH, c.TUI_RENDER_HEIGHT), cell),
                        NoCall, bpad)
        ELSE Resolution(tried, "Blank", BlankTile(cell[1], cell[2], FALSE), NoCall, bpad)

\* variant: in a distance-field mode the rasterized emoji is converted to a
\* distance field like a TUI glyph
ResolveEmoji_Field(in, c, i, q_out) ==
    LET cell == EmojiTileSize(c)
        try_bitmap == i < Len(in.chars) /\ in.HAS_QUARTZ
        bpad == IF try_bitmap THEN QuartzPadding(FALSE, DefaultTextPadding) ELSE 0
        tried == IF try_bitmap THEN <<"bitmap">> ELSE <<>>
    IN  IF try_bitmap /\ q_out = "raise"
        THEN Resolution(tried, "Raised", NoTile, NoCall, bpad)
        ELSE IF try_bitmap /\ q_out = "image"
        THEN Resolution(tried, IF in.use_msdf THEN "BitmapConvertedToField" ELSE "Bitmap",
                        ResizeTo(GlyphTile(IF in.use_msdf THEN "sdf" ELSE "bitmap",
                                           c.EMOJI_RENDER_SIZE, c.EMOJI_RENDER_SIZE), cell),
                        NoCall, bpad)
        ELSE Resolution(tried, "Blank", BlankTile(cell[1], cell[2], FALSE), NoCall, bpad)

\* render_emojis: cache, Quartz, blank
ResolveEmoji(in, c, i, q_out) ==
    LET cell == EmojiTileSize(c)
        from_cache == in.use_cache /\ HasFile(in.cache_files, i)
        try_bitmap == ~from_cache /\ i < Len(in.chars) /\ in.HAS_QUARTZ
        bpad == IF try_bitmap THEN QuartzPadding(FALSE, DefaultTextPadding) ELSE 0
        tried == (IF from_cache THEN <<"file">> ELSE <<>>)
                    \o (IF try_bitmap THEN <<"bitmap">> ELSE <<>>)
    IN  IF from_cache
        THEN Resolution(tried, "File", ResizeTo(GlyphTile("file", 32, 32), cell), NoCall, bpad)
        ELSE IF try_bitmap /\ q_out = "raise"
        THEN Resolution(tried, "Raised", NoTile, NoCall, bpad)
        ELSE IF try_bitmap /\ q_out = "image"
        THEN Resolution(tried, "Bitmap",
                        ResizeTo(GlyphTile("bitmap", c.EMOJI_RENDER_SIZE, c.EMOJI_RENDER_SIZE), cell),
                        NoCall, bpad)
        ELSE Resolution(tried, "Blank", BlankTile(cell[1], cell[2], FALSE), NoCall, bpad)

\* render_cjk_chars, the use_msdf branch of one iteration and the blank fill
ResolveCjkField(in, fp, c, i, m_out, q_out) ==
    LET cp == in.chars[i + 1]
        cell == CjkTileSize(c)
        try_vector == "cjk" \in DOMAIN fp.text /\ in.cjk_font.exists
        call == IF try_vector
                THEN [cp |-> cp, font |-> "cjk", graphic |-> FALSE, params |-> fp.text["cjk"]]
                ELSE NoCall
        vector_ok == try_vector /\ m_out = "image"
        try_bitmap == ~vector_ok /\ in.HAS_QUARTZ
        bpad == IF try_bitmap THEN QuartzPadding(FALSE, in.text_padding) ELSE 0
        tried == (IF try_vector THEN <<"vector">> ELSE <<>>)
                    \o (IF try_bitmap THEN <<"bitmap">> ELSE <<>>)
    IN  IF vector_ok
        THEN Resolution(tried, "Vector", GlyphTile("msdf", cell[1], cell[2]), call, bpad)
        ELSE IF try_bitmap /\ q_out = "raise"
        THEN Resolution(tried, "Raised", NoTile, call, bpad)
        ELSE IF try_bitmap /\ q_out = "image"
        THEN Resolution(tried, "BitmapConvertedToField",
                        ResizeTo(GlyphTile("sdf", FieldRenderSize(c, "cjk")[1], FieldRenderSize(c, "cjk")[2]), cell),
                        call, bpad)
        ELSE Resolution(tried, "Blank", BlankTile(cell[1], cell[2], TRUE), call, bpad)

\* render_cjk_chars, the bitmap branch: cache, Quartz, blank
ResolveCjkBitmap(in, c, i, q_out) ==
    LET cell == CjkTileSize(c)
        from_cache == in.use_cache /\ HasFile(in.cache_files, i)
        try_bitmap == ~from_cache /\ i < Len(in.chars) /\ in.HAS_QUARTZ
        bpad == IF try_bitmap THEN QuartzPadding(FALSE, in.text_padding) ELSE 0
        tried == (IF from_cache THEN <<"file">> ELSE <<>>)
                    \o (IF try_bitmap THEN <<"bitmap">> ELSE <<>>)
    IN  IF from_cache
        THEN Resolution(tried, "File", ResizeTo(GlyphTile("file", 32, 32), cell), NoCall, bpad)
        ELSE IF try_bitmap /\ q_out = "raise"
        THEN Resolution(tried, "Raised", NoTile, NoCall, bpad)
        ELSE IF try_bitmap /\ q_out = "image"
        THEN Resolution(tried, "Bitmap",
                        ResizeTo(GlyphTile("bitmap", c.CJK_RENDER_SIZE, c.CJK_RENDER_SIZE), cell),
                        NoCall, bpad)
        ELSE Resolution(tried, "Blank", BlankTile(cell[1], cell[2], FALSE), NoCall, bpad)

\* one iteration of the loop of the region's render function
Resolve(in, fp, c, i, m_out, q_out) ==
    LET cell == RegionCell(c, in.region)
    IN  IF in.region = "emoji" THEN ResolveEmoji(in, c, i, q_out)
        ELSE IF in.use_msdf
        THEN IF i < Len(in.chars)
             THEN IF in.region = "tui" THEN ResolveTuiField(in, fp, c, i, m_out, q_out)
                  ELSE ResolveCjkField(in, fp, c, i, m_out, q_out)
             ELSE Resolution(<<>>, "Blank", BlankTile(cell[1], cell[2], TRUE), NoCall, 0)
        ELSE IF in.region = "tui" THEN ResolveTuiBitmap(in, c, i, q_out)
             ELSE ResolveCjkBitmap(in, c, i, q_out)

\* the iterations lo .. hi-1, all past the end of the character list, where
\* no renderer is called: appended in one go
RECURSIVE AppendRange(_, _, _, _, _, _)
AppendRange(runs, in, fp, c, lo, hi) ==
    IF lo >= hi THEN runs
    ELSE LET F == {f \in in.fix_files \cup in.cache_files : lo <= f /\ f < hi}
             plain == Resolve(in, fp, c, hi, "fail", "none").tile
         IN  IF F = {} THEN AppendRun(runs, plain, hi - lo)
             ELSE LET f == CHOOSE x \in F : \A y \in F : x <= y
                      before == AppendRun(runs, plain, f - lo)
                  IN  AppendRange(AppendRun(before, Resolve(in, fp, c, f, "fail", "none").tile, 1),
                                  in, fp, c, f + 1, hi)

NoRenderIn ==
    [ region |-> "none", chars |-> <<>>, use_cache |-> FALSE, use_msdf |-> FALSE,
      tui_sdf |-> FALSE, msdf_pxrange |-> 0, text_padding |-> 0, HAS_QUARTZ |-> FALSE,
      tui_font |-> NoFontFile, braille_font |-> NoFontFile, cjk_font |-> NoFontFile,
      fix_files |-> {}, cache_files |-> {} ]

NoFontParams == [text |-> <<>>, graphic |-> <<>>]

RenIdle ==
    /\ render_in = NoRenderIn
    /\ render_pc = "idle"
    /\ font_params = NoFontParams
    /\ slot_i = 0
    /\ symbols = <<>>
    /\ msdf_count = 0
    /\ sdf_fallback_count = 0
    /\ resolved = NoResolution
    /\ msdfgen_calls = {}

-----------------------------------------------------------------------------
(* TextureConfig.__init__ with its size check *)

\* requested sizes are the multiples of 512 up to MaxSizeSteps of them, and
\* their neighbours
MaxSizeSteps == 20

SizeArgs == { k * 512 + d : k \in 0 .. MaxSizeSteps, d \in {-1, 0, 1} }

\* cfg before main constructs it
NoConfig == [size |-> 0, scale |-> 0]

\* variant: any size accepted and scaled
NewTextureConfig_Unchecked(size) == [error |-> "none", config |-> TextureConfig(size)]

\* TextureConfig(size): raises ValueError unless size in (4096, 8192)
NewTextureConfig(size) ==
    IF size \notin {4096, 8192}
    THEN [error |-> "ValueError", config |-> NoConfig]
    ELSE [error |-> "none", config |-> TextureConfig(size)]

CfgIdle == size_arg = 0 /\ config_error = "none"

-----------------------------------------------------------------------------
(* Quartz font sizes and the font caches.                                  *)
(* A font size 1 + 511 * u / 2^33 is the pair <<u \div 65536, u % 65536>>: *)
(* every lo, hi and mid of the 32 bisection steps over [1.0, 512.0] is of  *)
(* this form, and a double holds each of them exactly.                     *)

GridBase == 65536
GridLo == <<0, 0>>
GridHi == <<131072, 0>>

GridLess(a, b) == a[1] < b[1] \/ (a[1] = b[1] /\ a[2] < b[2])
GridLeq(a, b) == a = b \/ GridLess(a, b)

\* b - a, for a <= b
GridWidth(a, b) ==
    IF b[2] >= a[2] THEN <<b[1] - a[1], b[2] - a[2]>>
    ELSE <<b[1] - a[1] - 1, b[2] + GridBase - a[2]>>

\* (a + b) / 2.0
GridMid(a, b) ==
    LET l == a[2] + b[2]
        h == a[1] + b[1] + (l \div GridBase)
    IN  <<h \div 2, ((l % GridBase) + (h % 2) * GridBase) \div 2>>

\* range(32)
BisectSteps == 32

\* the fonts CoreText measures. "increasing": ascent + descent + leading grows
\* with the size, and is below target_h * padding exactly for the sizes below
\* cross[padding]; "wavy": a line height that is not monotone in the size;
\* "unloadable": the file yields no font descriptor
QuartzFont(kind, c92, c100) == [kind |-> kind, cross |-> (92 :> c92 @@ 100 :> c100)]

QuartzFonts ==
    { QuartzFont("increasing", <<0, 0>>, <<0, 0>>),
      QuartzFont("increasing", <<0, 1>>, <<0, 2>>),
      QuartzFont("increasing", <<12345, 6789>>, <<13419, 100>>),
      QuartzFont("increasing", <<65536, 0>>, <<71234, 65535>>),
      QuartzFont("increasing", <<131072, 0>>, <<131073, 0>>),
      QuartzFont("increasing", <<131073, 0>>, <<131073, 0>>),
      QuartzFont("wavy", <<0, 0>>, <<0, 0>>),
      QuartzFont("unloadable", <<0, 0>>, <<0, 0>>) }

\* h < target, h the line height of the font at the size
HeightBelow(f, padding, size) ==
    IF f.kind = "increasing" THEN GridLess(size, f.cross[padding])
    ELSE (size[1] \div 1024) % 2 = 1 \/ size[2] % 3 = 1

\* variant: the halves of the interval exchanged
BisectBody_Swapped(f, padding, l, h) ==
    LET mid == GridMid(l, h)
    IN  IF HeightBelow(f, padding, mid) THEN [lo |-> l, hi |-> mid] ELSE [lo |-> mid, hi |-> h]

\* solve_font_size_for_height: one iteration of the loop
BisectBody(f, padding, l, h) ==
    LET mid == GridMid(l, h)
    IN  IF HeightBelow(f, padding, mid) THEN [lo |-> mid, hi |-> h] ELSE [lo |-> l, hi |-> mid]

\* a font size: base on the grid, times factor
FontSize(base, factor) == [base |-> base, factor |-> factor]
NoSize == FontSize(GridLo, Whole(0))
NoMeasure == <<-1, 1>>

FracLeq(a, b) == a[1] * b[2] <= b[1] * a[2]

\* margin = 0.98
WidthMargin == Frac(98, 100)

\* the widest ink width among "W@M#%&QG" that CoreText may report for a cell
InkWidths(cell_w) ==
    { Whole(0), Frac(cell_w, 2), FracMul(Whole(cell_w), WidthMargin),
      Frac(cell_w * 99, 100), Whole(2 * cell_w) }

\* variant: the size always scaled by limit / worst
apply_width_constraint_Scaled(size, worst, cell_w) ==
    FontSize(size, FracDiv(FracMul(Whole(cell_w), WidthMargin), worst))

apply_width_constraint(size, worst, cell_w) ==
    LET limit == FracMul(Whole(cell_w), WidthMargin)
    IN  IF FracLeq(worst, limit) THEN FontSize(size, Whole(1))
        ELSE FontSize(size, FracDiv(limit, worst))

\* render_char_quartz calls with a font path: the TUI render cell in field
\* mode at both texture sizes, text (text_padding 0.92) or graphic (1.0)
QuartzCall(w, h, fill_cell) ==
    [width |-> w, height |-> h, padding |-> IF fill_cell THEN 100 ELSE DefaultTextPadding,
     fill_cell |-> fill_cell]

QuartzCells == { FieldRenderSize(TextureConfig(size), "tui") : size \in Sizes }

QuartzCalls == { QuartzCall(c[1], c[2], g) : c \in QuartzCells, g \in BOOLEAN }
NoQuartzCall == QuartzCall(0, 0, FALSE)

\* (font_path, width, height, padding), font_path being MSDFGEN_TUI_FONT
CacheKey(call) == <<call.width, call.height, call.padding>>
CacheKeys == { CacheKey(call) : call \in QuartzCalls }
NotCached == [cached |-> FALSE, size |-> NoSize]

FontPaths == {"tui", "braille"}
NotLoaded == [loaded |-> FALSE, cmap |-> {}]

\* generate_cjk: the layout of cjk.png and cjk64.png

TEXTURE_SIZE == 4096

\* SIZE_CONFIG: cell and cols of the three sizes
SIZE_CONFIG ==
    (16 :> [cell |-> 16, cols |-> 256]) @@ (32 :> [cell |-> 32, cols |-> 128])
        @@ (64 :> [cell |-> 64, cols |-> 64])

\* (n + cols - 1) // cols
CeilDiv(n, cols) == (n + cols - 1) \div cols

\* main, step 2: the layout computed from total_chars
ComputeLayout(total) ==
    LET rows_16 == CeilDiv(total, SIZE_CONFIG[16].cols)
        height_16 == rows_16 * SIZE_CONFIG[16].cell
        rows_32 == CeilDiv(total, SIZE_CONFIG[32].cols)
        height_32 == rows_32 * SIZE_CONFIG[32].cell
        y_start_64 == height_16 + height_32
        remaining_height == TEXTURE_SIZE - y_start_64
        rows == remaining_height \div SIZE_CONFIG[64].cell
        chars == rows * SIZE_CONFIG[64].cols
        chars_64_layer1 == IF chars > total THEN total ELSE chars
        rows_64_layer1 == IF chars > total THEN CeilDiv(total, SIZE_CONFIG[64].cols) ELSE rows
        chars_64_layer2 == total - chars_64_layer1
    IN  [ rows_16 |-> rows_16, rows_32 |-> rows_32,
          y_start_16 |-> 0, y_start_32 |-> height_16, y_start_64 |-> y_start_64,
          rows_64_layer1 |-> rows_64_layer1, chars_64_layer1 |-> chars_64_layer1,
          chars_64_layer2 |-> chars_64_layer2,
          rows_64_layer2 |-> IF chars_64_layer2 > 0
                             THEN CeilDiv(chars_64_layer2, SIZE_CONFIG[64].cols) ELSE 0 ]

NoLayout == ComputeLayout(0)

\* a slice bound of a list of n items, as Python clamps it
SliceIndex(n, k) == IF k < 0 THEN (IF n + k < 0 THEN 0 ELSE n + k) ELSE (IF k > n THEN n ELSE k)

\* paste_images_to_texture(texture, images[from:to], cols, cell, start_y) for
\* a list of n images: the characters first .. first + count - 1 of the list
\* are pasted, the i-th of them at (i % cols * cell, start_y + i // cols * cell)
PasteSlice(tex, size, start_y, n, from, to) ==
    LET a == SliceIndex(n, from)
        b == SliceIndex(n, to)
    IN  [ texture |-> tex, cell |-> SIZE_CONFIG[size].cell, cols |-> SIZE_CONFIG[size].cols,
          start_y |-> start_y, first |-> a, count |-> IF b > a THEN b - a ELSE 0 ]

\* the return value of paste_images_to_texture: the next free y
PasteBottom(p) == p.start_y + CeilDiv(p.count, p.cols) * p.cell

GenIdle == total_chars = 0 /\ gen_pc = "idle" /\ layout = NoLayout /\ gen_pastes = <<>>

FontIdle ==
    /\ font_files = [p \in FontPaths |-> NoFontFile]
    /\ font_cmaps = [p \in FontPaths |-> NotLoaded]
    /\ ttfont_opens = [p \in FontPaths |-> 0]
    /\ quartz_font = QuartzFont("unloadable", <<0, 0>>, <<0, 0>>)
    /\ size_call = NoQuartzCall
    /\ solve_lo = GridLo /\ solve_hi = GridHi /\ bisect_i = 0
    /\ size_pc = "idle"
    /\ size_h = GridLo
    /\ width_worst = NoMeasure
    /\ actual_font_size = NoSize
    /\ font_size_cache = [k \in CacheKeys |-> NotCached]
    /\ font_calls = 0

ToolIdle == FontIdle /\ GenIdle

-----------------------------------------------------------------------------
(* main: the stamping loops *)

inputs == <<cfg, all_sprites, tui_txt, cjk_chars>>

Init ==
    /\ \E size \in Sizes : cfg = TextureConfig(size)
    /\ all_sprites \in {NumC64Sources * SheetSymbols, MaxC64Sheets * SheetSymbols}
    /\ tui_txt \in TuiTxts
    /\ cjk_chars \in CjkLists
    /\ pc = "sprite"
    /\ block_idx = 0 /\ row = 0 /\ col = 0
    /\ sprite_idx = 0 /\ tui_idx = 0 /\ emoji_idx = 0 /\ cjk_idx = 0
    /\ texture = {}
    /\ pasted = NoPaste
    /\ saved = "none"
    /\ symbol_map = "none"
    /\ SdfIdle
    /\ ParIdle
    /\ RenIdle
    /\ CfgIdle
    /\ ToolIdle

\* variant: every block walked with 16 columns
NextCell_SixteenColumns(perRow) ==
    IF col + 1 < 16
    THEN /\ col' = col + 1 /\ row' = row /\ block_idx' = block_idx
    ELSE /\ col' = 0
         /\ IF row + 1 < 16
            THEN row' = row + 1 /\ block_idx' = block_idx
            ELSE row' = 0 /\ block_idx' = block_idx + 1

\* for block_idx ...: for row in range(16): for col in range(perRow): one step
NextCell(perRow) ==
    IF col + 1 < perRow
    THEN /\ col' = col + 1 /\ row' = row /\ block_idx' = block_idx
    ELSE /\ col' = 0
         /\ IF row + 1 < 16
            THEN row' = row + 1 /\ block_idx' = block_idx
            ELSE row' = 0 /\ block_idx' = block_idx + 1

\* block_x, block_y of the three block loops
SpriteBlockOrigin(c, b) ==
    LET block_row == b \div c.BLOCKS_PER_ROW
        block_col == b % c.BLOCKS_PER_ROW
    IN  <<block_col * c.SPRITE_BLOCK_SIZE, block_row * c.SPRITE_BLOCK_SIZE>>

\* variant: TUI blocks placed from the top of the canvas
TuiBlockOrigin_AtTop(c, b) == <<b * c.TUI_BLOCK_WIDTH, 0>>

TuiBlockOrigin(c, b) == <<b * c.TUI_BLOCK_WIDTH, c.TUI_AREA_START_Y>>

\* variant: emoji blocks placed without the region's start offset
EmojiBlockOrigin_NoStart(c, b) == <<b * c.EMOJI_BLOCK_WIDTH, c.EMOJI_AREA_START_Y>>

EmojiBlockOrigin(c, b) ==
    <<c.EMOJI_AREA_START_X + b * c.EMOJI_BLOCK_WIDTH, c.EMOJI_AREA_START_Y>>

\* variant: row and column exchanged
CellPos_Swapped(origin, r, cl, cell_w, cell_h) ==
    <<origin[1] + r * cell_w, origin[2] + cl * cell_h>>

\* x, y of a cell inside its block
CellPos(origin, r, cl, cell_w, cell_h) == <<origin[1] + cl * cell_w, origin[2] + r * cell_h>>

\* variant: the CJK grid started at the TUI row
CjkPos_TuiStart(c, i) ==
    LET cl == i % c.CJK_GRID_COLS
        r == i \div c.CJK_GRID_COLS
    IN  <<cl * c.CJK_CHAR_SIZE, c.TUI_AREA_START_Y + r * c.CJK_CHAR_SIZE>>

\* x, y of the CJK tile at list position i
CjkPos(c, i) ==
    LET cl == i % c.CJK_GRID_COLS
        r == i \div c.CJK_GRID_COLS
    IN  <<cl * c.CJK_CHAR_SIZE, c.CJK_AREA_START_Y + r * c.CJK_CHAR_SIZE>>

StampSprite ==
    /\ pc = "sprite"
    /\ block_idx < cfg.SPRITE_BLOCKS
    /\ sprite_idx < all_sprites
    /\ LET o == SpriteBlockOrigin(cfg, block_idx)
           xy == CellPos(o, row, col, cfg.SPRITE_CHAR_SIZE, cfg.SPRITE_CHAR_SIZE)
           r == Rect(xy[1], xy[2], SpriteTileSize(cfg)[1], SpriteTileSize(cfg)[2])
       IN  /\ texture' = Paste(texture, r)
           /\ pasted' = [region |-> "sprite", idx |-> sprite_idx, block |-> block_idx,
                         row |-> row, col |-> col, bx |-> o[1], by |-> o[2], rect |-> r]
    /\ sprite_idx' = sprite_idx + 1
    /\ NextCell(16)
    /\ UNCHANGED <<sdfVars, parVars, renVars, cfgVars, toolVars, inputs, pc, tui_idx, emoji_idx, cjk_idx, saved, symbol_map>>

EndSprite ==
    /\ pc = "sprite"
    /\ block_idx >= cfg.SPRITE_BLOCKS \/ sprite_idx >= all_sprites
    /\ pc' = "tui"
    /\ block_idx' = 0 /\ row' = 0 /\ col' = 0
    /\ UNCHANGED <<sdfVars, parVars, renVars, cfgVars, toolVars, inputs, sprite_idx, tui_idx, emoji_idx, cjk_idx,
                   texture, pasted, saved, symbol_map>>

StampTui ==
    /\ pc = "tui"
    /\ block_idx < cfg.TUI_BLOCKS_COUNT
    /\ tui_idx < TuiImagesLen(cfg)
    /\ LET o == TuiBlockOrigin(cfg, block_idx)
           xy == CellPos(o, row, col, cfg.TUI_CHAR_WIDTH, cfg.TUI_CHAR_HEIGHT)
           r == Rect(xy[1], xy[2], TuiTileSize(cfg)[1], TuiTileSize(cfg)[2])
       IN  /\ texture' = Paste(texture, r)
           /\ pasted' = [region |-> "tui", idx |-> tui_idx, block |-> block_idx,
                         row |-> row, col |-> col, bx |-> o[1], by |-> o[2], rect |-> r]
    /\ tui_idx' = tui_idx + 1
    /\ NextCell(16)
    /\ UNCHANGED <<sdfVars, parVars, renVars, cfgVars, toolVars, inputs, pc, sprite_idx, emoji_idx, cjk_idx, saved, symbol_map>>

EndTui ==
    /\ pc = "tui"
    /\ block_idx >= cfg.TUI_BLOCKS_COUNT \/ tui_idx >= TuiImagesLen(cfg)
    /\ pc' = "emoji"
    /\ block_idx' = 0 /\ row' = 0 /\ col' = 0
    /\ UNCHANGED <<sdfVars, parVars, renVars, cfgVars, toolVars, inputs, sprite_idx, tui_idx, emoji_idx, cjk_idx,
                   texture, pasted, saved, symbol_map>>

StampEmoji ==
    /\ pc = "emoji"
    /\ block_idx < cfg.EMOJI_BLOCKS_COUNT
    /\ emoji_idx < EmojiImagesLen(cfg)
    /\ LET o == EmojiBlockOrigin(cfg, block_idx)
           xy == CellPos(o, row, col, cfg.EMOJI_CHAR_SIZE, cfg.EMOJI_CHAR_SIZE)
           r == Rect(xy[1], xy[2], EmojiTileSize(cfg)[1], EmojiTileSize(cfg)[2])
       IN  /\ texture' = Paste(texture, r)
           /\ pasted' = [region |-> "emoji", idx |-> emoji_idx, block |-> block_idx,
                         row |-> row, col |-> col, bx |-> o[1], by |-> o[2], rect |-> r]
    /\ emoji_idx' = emoji_idx + 1
    /\ NextCell(8)
    /\ UNCHANGED <<sdfVars, parVars, renVars, cfgVars, toolVars, inputs, pc, sprite_idx, tui_idx, cjk_idx, saved, symbol_map>>

EndEmoji ==
    /\ pc = "emoji"
    /\ block_idx >= cfg.EMOJI_BLOCKS_COUNT \/ emoji_idx >= EmojiImagesLen(cfg)
    /\ pc' = "cjk"
    /\ block_idx' = 0 /\ row' = 0 /\ col' = 0
    /\ UNCHANGED <<sdfVars, parVars, renVars, cfgVars, toolVars, inputs, sprite_idx, tui_idx, emoji_idx, cjk_idx,
                   texture, pasted, saved, symbol_map>>

\* for i, img in enumerate(cjk_images): i is cjk_idx (no image is None)
StampCjk ==
    /\ pc = "cjk"
    /\ cjk_idx < CjkImagesLen(cfg)
    /\ LET i == cjk_idx
           xy == CjkPos(cfg, i)
           r == Rect(xy[1], xy[2], CjkTileSize(cfg)[1], CjkTileSize(cfg)[2])
       IN  /\ texture' = Paste(texture, r)
           /\ pasted' = [region |-> "cjk", idx |-> i, block |-> 0,
                         row |-> i \div cfg.CJK_GRID_COLS, col |-> i % cfg.CJK_GRID_COLS,
                         bx |-> 0, by |-> cfg.CJK_AREA_START_Y, rect |-> r]
    /\ cjk_idx' = cjk_idx + 1
    /\ UNCHANGED <<sdfVars, parVars, renVars, cfgVars, toolVars, inputs, pc, block_idx, row, col, sprite_idx, tui_idx, emoji_idx,
                   saved, symbol_map>>

EndCjk ==
    /\ pc = "cjk"
    /\ cjk_idx >= CjkImagesLen(cfg)
    /\ pc' = "save"
    /\ UNCHANGED <<sdfVars, parVars, renVars, cfgVars, toolVars, inputs, block_idx, row, col, sprite_idx, tui_idx, emoji_idx, cjk_idx,
                   texture, pasted, saved, symbol_map>>

\* texture.save(args.output_png, "PNG")
SaveTexture ==
    /\ pc = "save"
    /\ saved' = texture
    /\ pc' = "map"
    /\ UNCHANGED <<sdfVars, parVars, renVars, cfgVars, toolVars, inputs, block_idx, row, col, sprite_idx, tui_idx, emoji_idx, cjk_idx,
                   texture, pasted, symbol_map>>

\* symbol_map = build_symbol_map(tui_chars, emojis, cjk_chars); json.dump
WriteSymbolMap ==
    /\ pc = "map"
    /\ symbol_map' = build_symbol_map(cfg, tui_txt.tui_chars, tui_txt.emojis, cjk_chars)
    /\ pc' = "done"
    /\ UNCHANGED <<sdfVars, parVars, renVars, cfgVars, toolVars, inputs, block_idx, row, col, sprite_idx, tui_idx, emoji_idx, cjk_idx,
                   texture, pasted, saved>>

Next ==
    \/ StampSprite \/ EndSprite
    \/ StampTui \/ EndTui
    \/ StampEmoji \/ EndEmoji
    \/ StampCjk \/ EndCjk
    \/ SaveTexture
    \/ WriteSymbolMap

Spec == Init /\ [][Next]_vars

-----------------------------------------------------------------------------
(* bitmap_to_sdf and compute_msdf_params as runs of their own *)

MainIdle ==
    /\ cfg = TextureConfig(4096)
    /\ all_sprites = 0
    /\ tui_txt = [tui_chars |-> <<32>>, emojis |-> <<>>]
    /\ cjk_chars = [len |-> 0, period |-> 1]
    /\ pc = "idle"
    /\ block_idx = 0 /\ row = 0 /\ col = 0
    /\ sprite_idx = 0 /\ tui_idx = 0 /\ emoji_idx = 0 /\ cjk_idx = 0
    /\ texture = {}
    /\ pasted = NoPaste
    /\ saved = "none"
    /\ symbol_map = "none"

InitSdf ==
    /\ MainIdle
    /\ ParIdle
    /\ RenIdle
    /\ CfgIdle
    /\ ToolIdle
    /\ bitmap_img \in SquareBitmaps \cup FreeBitmaps
    /\ spread \in 1 .. MaxSpread
    /\ sdf_img = NoImage

\* variant: the result written into the input image
BitmapToSdf_InPlace ==
    /\ sdf_img = NoImage
    /\ \E outcome \in NoBackgroundOutcomes :
          /\ sdf_img' = bitmap_to_sdf(bitmap_img, spread, outcome)
          /\ bitmap_img' = bitmap_to_sdf(bitmap_img, spread, outcome)
    /\ UNCHANGED <<mainVars, parVars, renVars, cfgVars, toolVars, spread>>

\* sdf_img = bitmap_to_sdf(rendered, spread)
BitmapToSdf ==
    /\ sdf_img = NoImage
    /\ \E outcome \in NoBackgroundOutcomes :
          sdf_img' = bitmap_to_sdf(bitmap_img, spread, outcome)
    /\ UNCHANGED <<mainVars, parVars, renVars, cfgVars, toolVars, bitmap_img, spread>>

SpecSdf == InitSdf /\ [][BitmapToSdf]_vars

InitParams ==
    /\ MainIdle
    /\ SdfIdle
    /\ RenIdle
    /\ CfgIdle
    /\ ToolIdle
    /\ font \in FontTables
    /\ \E wh \in TargetCells, p \in Paddings, r \in 1 .. MaxPxrange :
          target = [w |-> wh[1], h |-> wh[2], padding |-> p, pxrange |-> r]
    /\ msdf_params = NoParams

\* s, tx, ty = compute_msdf_params(fpath, cell width, cell height, padding)
ComputeMsdfParams ==
    /\ msdf_params = NoParams
    /\ msdf_params' = compute_msdf_params(font, target.w, target.h, target.padding)
    /\ UNCHANGED <<mainVars, sdfVars, renVars, cfgVars, toolVars, font, target>>

SpecParams == InitParams /\ [][ComputeMsdfParams]_vars

-----------------------------------------------------------------------------
(* The render functions as runs of their own *)

MainIdleAt(c) ==
    /\ cfg = c
    /\ all_sprites = 0
    /\ tui_txt = [tui_chars |-> <<32>>, emojis |-> <<>>]
    /\ cjk_chars = [len |-> 0, period |-> 1]
    /\ pc = "idle"
    /\ block_idx = 0 /\ row = 0 /\ col = 0
    /\ sprite_idx = 0 /\ tui_idx = 0 /\ emoji_idx = 0 /\ cjk_idx = 0
    /\ texture = {}
    /\ pasted = NoPaste
    /\ saved = "none"
    /\ symbol_map = "none"

\* the calls main makes, and the environments they meet; MSDFGEN_CJK_FONT is
\* None in every run, so render_cjk_chars never finds a CJK vector font
RenderIns ==
    { [NoRenderIn EXCEPT !.region = "tui", !.chars = l, !.use_msdf = TRUE, !.tui_sdf = ts,
                         !.msdf_pxrange = MaxPxrange, !.text_padding = p, !.HAS_QUARTZ = hq,
                         !.tui_font = tf, !.braille_font = bf] :
        l \in TuiCharLists, ts \in BOOLEAN, p \in Paddings, hq \in BOOLEAN,
        tf \in TuiFontFiles, bf \in BrailleFontFiles }
    \cup
    { [NoRenderIn EXCEPT !.region = "tui", !.chars = l, !.use_cache = uc,
                         !.msdf_pxrange = MaxPxrange, !.text_padding = p, !.HAS_QUARTZ = hq,
                         !.fix_files = ff, !.cache_files = cf] :
        l \in TuiCharLists, uc \in BOOLEAN, p \in Paddings, hq \in BOOLEAN,
        ff \in FileSlots, cf \in FileSlots }
    \cup
    { [NoRenderIn EXCEPT !.region = "emoji", !.chars = l, !.use_cache = uc,
                         !.use_msdf = um, !.tui_sdf = ts,
                         !.HAS_QUARTZ = hq, !.cache_files = cf] :
        l \in EmojiLists, uc \in BOOLEAN, um \in BOOLEAN, ts \in BOOLEAN,
        hq \in BOOLEAN, cf \in FileSlots }
    \cup
    { [NoRenderIn EXCEPT !.region = "emoji", !.chars = [k \in 1 .. MaxEmojiLen |-> 128512],
                         !.use_cache = uc, !.cache_files = cf] :
        uc \in BOOLEAN, cf \in FileSlots }
    \cup
    { [NoRenderIn EXCEPT !.region = "cjk", !.chars = l, !.use_msdf = TRUE,
                         !.msdf_pxrange = MaxPxrange, !.text_padding = p, !.HAS_QUARTZ = hq] :
        l \in CjkCharLists, p \in Paddings, hq \in BOOLEAN }
    \cup
    { [NoRenderIn EXCEPT !.region = "cjk", !.chars = l, !.use_cache = uc,
                         !.msdf_pxrange = MaxPxrange, !.text_padding = p, !.HAS_QUARTZ = hq,
                         !.cache_files = cf] :
        l \in CjkCharLists, uc \in BOOLEAN, p \in Paddings, hq \in BOOLEAN, cf \in FileSlots }

InitRender ==
    /\ \E size \in Sizes : MainIdleAt(TextureConfig(size))
    /\ SdfIdle
    /\ ParIdle
    /\ CfgIdle
    /\ ToolIdle
    /\ render_in \in RenderIns
    /\ render_pc = "start"
    /\ font_params = NoFontParams
    /\ slot_i = 0
    /\ symbols = <<>>
    /\ msdf_count = 0
    /\ sdf_fallback_count = 0
    /\ resolved = NoResolution
    /\ msdfgen_calls = {}

\* the statements before the loop: counters, the parameter dicts
RenderStart ==
    /\ render_pc = "start"
    /\ font_params' = PrecomputeParams(render_in, cfg)
    /\ render_pc' = "loop"
    /\ UNCHANGED <<mainVars, sdfVars, parVars, cfgVars, toolVars, render_in, slot_i, symbols,
                   msdf_count, sdf_fallback_count, resolved, msdfgen_calls>>

\* one iteration for a slot that has a character; an exception of the
\* rasterizer is caught nowhere and ends the run
ResolveSlot ==
    /\ render_pc = "loop"
    /\ slot_i < RegionTotal(cfg, render_in.region)
    /\ slot_i < Len(render_in.chars)
    /\ \E m_out \in MsdfgenOutcomes, q_out \in QuartzOutcomes :
          LET r == Resolve(render_in, font_params, cfg, slot_i, m_out, q_out)
          IN  /\ resolved' = r @@ [i |-> slot_i, cp |-> render_in.chars[slot_i + 1]]
              /\ msdfgen_calls' = IF r.call = NoCall THEN msdfgen_calls
                                  ELSE msdfgen_calls \cup {r.call}
              /\ msdf_count' = IF r.terminal = "Vector" THEN msdf_count + 1 ELSE msdf_count
              /\ IF r.terminal = "Raised"
                 THEN /\ render_pc' = "aborted"
                      /\ UNCHANGED <<slot_i, symbols, sdf_fallback_count>>
                 ELSE /\ render_pc' = render_pc
                      /\ slot_i' = slot_i + 1
                      /\ symbols' = AppendRun(symbols, r.tile, 1)
                      /\ sdf_fallback_count' =
                            IF r.terminal = "BitmapConvertedToField"
                            THEN sdf_fallback_count + 1 ELSE sdf_fallback_count
    /\ UNCHANGED <<mainVars, sdfVars, parVars, cfgVars, toolVars, render_in, font_params>>

\* the iterations past the end of the character list
FillRemaining ==
    /\ render_pc = "loop"
    /\ slot_i < RegionTotal(cfg, render_in.region)
    /\ slot_i >= Len(render_in.chars)
    /\ LET total == RegionTotal(cfg, render_in.region)
       IN  /\ symbols' = AppendRange(symbols, render_in, font_params, cfg, slot_i, total)
           /\ resolved' = Resolve(render_in, font_params, cfg, total - 1, "fail", "none")
                             @@ [i |-> total - 1, cp |-> 0]
           /\ slot_i' = total
    /\ UNCHANGED <<mainVars, sdfVars, parVars, cfgVars, toolVars, render_in, render_pc, font_params,
                   msdf_count, sdf_fallback_count, msdfgen_calls>>

\* print the two counts (use_msdf only); return symbols
RenderReturn ==
    /\ render_pc = "loop"
    /\ slot_i >= RegionTotal(cfg, render_in.region)
    /\ render_pc' = "returned"
    /\ UNCHANGED <<mainVars, sdfVars, parVars, cfgVars, toolVars, render_in, font_params, slot_i,
                   symbols, msdf_count, sdf_fallback_count, resolved, msdfgen_calls>>

NextRender == RenderStart \/ ResolveSlot \/ FillRemaining \/ RenderReturn

SpecRender == InitRender /\ [][NextRender]_vars

-----------------------------------------------------------------------------
(* TextureConfig(size) as a run of its own *)

InitConfig ==
    /\ MainIdleAt(NoConfig)
    /\ SdfIdle
    /\ ParIdle
    /\ RenIdle
    /\ size_arg \in SizeArgs
    /\ config_error = "none"
    /\ ToolIdle

\* cfg = TextureConfig(args.size)
ConstructConfig ==
    /\ cfg = NoConfig
    /\ config_error = "none"
    /\ LET r == NewTextureConfig(size_arg)
       IN  cfg' = r.config /\ config_error' = r.error
    /\ UNCHANGED <<toolVars, all_sprites, tui_txt, cjk_chars, pc, block_idx, row, col, sprite_idx,
                   tui_idx, emoji_idx, cjk_idx, texture, pasted, saved, symbol_map,
                   sdfVars, parVars, renVars, size_arg>>

SpecConfig == InitConfig /\ [][ConstructConfig]_vars

-----------------------------------------------------------------------------
(* The font caches and the Quartz font size as a run of their own *)

MaxFontCalls == 3

InitFont ==
    /\ MainIdleAt(NoConfig)
    /\ SdfIdle
    /\ ParIdle
    /\ RenIdle
    /\ CfgIdle
    /\ font_files \in { ("tui" :> t @@ "braille" :> b) : t \in TuiFontFiles, b \in BrailleFontFiles }
    /\ font_cmaps = [p \in FontPaths |-> NotLoaded]
    /\ ttfont_opens = [p \in FontPaths |-> 0]
    /\ quartz_font \in QuartzFonts
    /\ size_call = NoQuartzCall
    /\ solve_lo = GridLo /\ solve_hi = GridHi /\ bisect_i = 0
    /\ size_pc = "idle"
    /\ size_h = GridLo
    /\ width_worst = NoMeasure
    /\ actual_font_size = NoSize
    /\ font_size_cache = [k \in CacheKeys |-> NotCached]
    /\ font_calls = 0
    /\ GenIdle

\* load_font_cmap(font_path)
LoadFontCmap(path) ==
    /\ size_pc = "idle"
    /\ font_calls < MaxFontCalls
    /\ font_calls' = font_calls + 1
    /\ IF font_cmaps[path].loaded
       THEN UNCHANGED <<font_cmaps, ttfont_opens>>
       ELSE /\ ttfont_opens' = [ttfont_opens EXCEPT ![path] = @ + 1]
            /\ font_cmaps' = [font_cmaps EXCEPT ![path] =
                   [loaded |-> TRUE,
                    cmap |-> IF font_files[path].exists THEN font_files[path].glyphs ELSE {}]]
    /\ UNCHANGED <<mainVars, sdfVars, parVars, renVars, cfgVars, genVars, font_files, quartz_font,
                   size_call, solve_lo, solve_hi, bisect_i, size_pc, size_h, width_worst,
                   actual_font_size, font_size_cache>>

\* get_font_metrics(font_path), called by compute_msdf_params for a font
\* whose path exists
GetFontMetrics(path) ==
    /\ size_pc = "idle"
    /\ font_calls < MaxFontCalls
    /\ font_files[path].exists
    /\ font_calls' = font_calls + 1
    /\ ttfont_opens' = [ttfont_opens EXCEPT ![path] = @ + 1]
    /\ UNCHANGED <<mainVars, sdfVars, parVars, renVars, cfgVars, genVars, font_files, font_cmaps,
                   quartz_font, size_call, solve_lo, solve_hi, bisect_i, size_pc, size_h,
                   width_worst, actual_font_size, font_size_cache>>

\* render_char_quartz with font_path = MSDFGEN_TUI_FONT, an existing file: up
\* to the first iteration of solve_font_size_for_height, or to the cached size
SizeCall(call) ==
    /\ size_pc = "idle"
    /\ font_calls < MaxFontCalls
    /\ font_files["tui"].exists
    /\ font_calls' = font_calls + 1
    /\ size_call' = call
    /\ IF ~call.fill_cell /\ font_size_cache[CacheKey(call)].cached
       THEN /\ actual_font_size' = font_size_cache[CacheKey(call)].size
            /\ UNCHANGED <<solve_lo, solve_hi, bisect_i, size_pc>>
       ELSE /\ solve_lo' = GridLo
            /\ solve_hi' = GridHi
            /\ bisect_i' = 0
            /\ size_pc' = "bisect"
            /\ UNCHANGED actual_font_size
    /\ UNCHANGED <<mainVars, sdfVars, parVars, renVars, cfgVars, genVars, font_files, font_cmaps,
                   ttfont_opens, quartz_font, size_h, width_worst, font_size_cache>>

\* solve_font_size_for_height: one iteration; ctfont_from_file raises
\* RuntimeError for a file without font descriptors
BisectStep ==
    /\ size_pc = "bisect"
    /\ bisect_i < BisectSteps
    /\ IF quartz_font.kind = "unloadable"
       THEN /\ size_pc' = "raised"
            /\ UNCHANGED <<solve_lo, solve_hi, bisect_i>>
       ELSE LET r == BisectBody(quartz_font, size_call.padding, solve_lo, solve_hi)
            IN  /\ solve_lo' = r.lo
                /\ solve_hi' = r.hi
                /\ bisect_i' = bisect_i + 1
                /\ UNCHANGED size_pc
    /\ UNCHANGED <<mainVars, sdfVars, parVars, renVars, cfgVars, genVars, font_files, font_cmaps,
                   ttfont_opens, quartz_font, size_call, size_h, width_worst,
                   actual_font_size, font_size_cache, font_calls>>

\* solve_font_size_for_height returns (lo + hi) / 2.0; a graphic character
\* takes it as it is, a text character goes on through apply_width_constraint
\* and the size is stored in _font_size_cache
SizeReturn ==
    /\ size_pc = "bisect"
    /\ bisect_i = BisectSteps
    /\ size_pc' = "idle"
    /\ size_h' = GridMid(solve_lo, solve_hi)
    /\ IF size_call.fill_cell
       THEN /\ actual_font_size' = FontSize(size_h', Whole(1))
            /\ width_worst' = NoMeasure
            /\ UNCHANGED font_size_cache
       ELSE \E worst \in InkWidths(size_call.width) :
                /\ width_worst' = worst
                /\ actual_font_size' = apply_width_constraint(size_h', worst, size_call.width)
                /\ font_size_cache' = [font_size_cache EXCEPT ![CacheKey(size_call)] =
                       [cached |-> TRUE, size |-> actual_font_size']]
    /\ UNCHANGED <<mainVars, sdfVars, parVars, renVars, cfgVars, genVars, font_files, font_cmaps,
                   ttfont_opens, quartz_font, size_call, solve_lo, solve_hi, bisect_i,
                   font_calls>>

NextFont ==
    \/ \E path \in FontPaths : LoadFontCmap(path)
    \/ \E path \in FontPaths : GetFontMetrics(path)
    \/ \E call \in QuartzCalls : SizeCall(call)
    \/ BisectStep
    \/ SizeReturn

SpecFont == InitFont /\ [][NextFont]_vars

-----------------------------------------------------------------------------
(* generate_cjk as a run of its own *)

MaxChars == 13100

\* cjk_chars = parse_subtlex_csv(args.csv): every one-character first field
\* of the CSV from its fourth row on, however many there are
InitGen ==
    /\ MainIdleAt(NoConfig)
    /\ SdfIdle
    /\ ParIdle
    /\ RenIdle
    /\ CfgIdle
    /\ FontIdle
    /\ total_chars \in 0 .. MaxChars
    /\ gen_pc = "parsed"
    /\ layout = NoLayout
    /\ gen_pastes = <<>>

\* main, steps 1 and 2
PlanLayout ==
    /\ gen_pc = "parsed"
    /\ IF total_chars = 0
       THEN gen_pc' = "exit" /\ UNCHANGED layout
       ELSE gen_pc' = "planned" /\ layout' = ComputeLayout(total_chars)
    /\ UNCHANGED <<mainVars, sdfVars, parVars, renVars, cfgVars, fontVars, total_chars,
                   gen_pastes>>

\* main, steps 3 and 4: the three lists pasted into cjk.png
WriteCjk ==
    /\ gen_pc = "planned"
    /\ gen_pc' = "layer1"
    /\ gen_pastes' =
          << PasteSlice("cjk.png", 16, layout.y_start_16, total_chars, 0, total_chars),
             PasteSlice("cjk.png", 32, layout.y_start_32, total_chars, 0, total_chars),
             PasteSlice("cjk.png", 64, layout.y_start_64, total_chars, 0,
                        layout.chars_64_layer1) >>
    /\ UNCHANGED <<mainVars, sdfVars, parVars, renVars, cfgVars, fontVars, total_chars, layout>>

\* main, step 5: imgs_64[chars_64_layer1:] pasted into cjk64.png
WriteCjk64 ==
    /\ gen_pc = "layer1"
    /\ gen_pc' = "done"
    /\ gen_pastes' =
          IF layout.chars_64_layer2 > 0
          THEN Append(gen_pastes,
                      PasteSlice("cjk64.png", 64, 0, total_chars, layout.chars_64_layer1,
                                 total_chars))
          ELSE gen_pastes
    /\ UNCHANGED <<mainVars, sdfVars, parVars, renVars, cfgVars, fontVars, total_chars, layout>>

NextGen == PlanLayout \/ WriteCjk \/ WriteCjk64

SpecGen == InitGen /\ [][NextGen]_vars

-----------------------------------------------------------------------------
(* Addressing as the specification states it: locate and linearIndex.      *)

Regions(c) ==
    { [name |-> "sprite", kind |-> "block", base |-> c.LINEAR_SPRITE_BASE,
       total |-> c.SPRITE_BLOCKS * c.SPRITE_CHARS_PER_BLOCK,
       per |-> c.SPRITE_CHARS_PER_BLOCK],
      [name |-> "tui", kind |-> "block", base |-> c.LINEAR_TUI_BASE,
       total |-> c.TUI_BLOCKS_COUNT * c.TUI_CHARS_PER_BLOCK,
       per |-> c.TUI_CHARS_PER_BLOCK],
      [name |-> "emoji", kind |-> "block", base |-> c.LINEAR_EMOJI_BASE,
       total |-> c.EMOJI_BLOCKS_COUNT * c.EMOJI_CHARS_PER_BLOCK,
       per |-> c.EMOJI_CHARS_PER_BLOCK],
      [name |-> "cjk", kind |-> "grid", base |-> c.LINEAR_CJK_BASE,
       total |-> c.CJK_GRID_COLS * c.CJK_GRID_ROWS,
       per |-> c.CJK_GRID_COLS] }

Region(c, name) == CHOOSE r \in Regions(c) : r.name = name

\* the regions whose linear range holds i
RegionsOf(c, i) == {r \in Regions(c) : r.base <= i /\ i < r.base + r.total}

\* locate: (region, block, slot) for block regions, (region, row, col) for the grid
Locate(c, i) ==
    LET r == CHOOSE r \in RegionsOf(c, i) : TRUE
    IN  [region |-> r.name, major |-> (i - r.base) \div r.per, minor |-> (i - r.base) % r.per]

\* linearIndex: base + block * charsPerBlock + slot, or base + row * gridCols + col
LinearIndexOf(c, loc) ==
    LET r == Region(c, loc.region) IN r.base + loc.major * r.per + loc.minor

\* slots per row inside a block: range(16) for sprite and TUI, range(8) for emoji
SlotsPerRow(name) == IF name = "emoji" THEN 8 ELSE 16

BlockRegions == {"sprite", "tui", "emoji"}

\* the (major, minor) coordinate at which the stamping loops hold a tile
PastedMajor == IF pasted.region = "cjk" THEN pasted.row ELSE pasted.block
PastedMinor ==
    IF pasted.region = "cjk" THEN pasted.col
    ELSE pasted.row * SlotsPerRow(pasted.region) + pasted.col

\* the linear index of the tile the last paste stamped
PastedLinear == Region(cfg, pasted.region).base + pasted.idx

\* last linear index of the whole index space
LastLinear == 48383

-----------------------------------------------------------------------------
(* C1: every linear index in 0..48383 lies in exactly one region; locating *)
(* it gives the (block, slot) or (row, col) at which the stamping loops     *)
(* hold that tile, and recomputing the linear index from that coordinate    *)
(* returns the index, the region boundaries included.                       *)
C1_RoundTrip ==
    pasted.region # "none" =>
        LET i == PastedLinear
            loc == Locate(cfg, i)
        IN  /\ i \in 0 .. LastLinear
            /\ Cardinality(RegionsOf(cfg, i)) = 1
            /\ loc.region = pasted.region
            /\ loc.major = PastedMajor
            /\ loc.minor = PastedMinor
            /\ LinearIndexOf(cfg, [region |-> pasted.region, major |-> PastedMajor,
                                   minor |-> PastedMinor]) = i

\* the last index, 48383, stamped in a run that stamped every index before it
C1_Witness ==
    /\ pasted.region = "cjk" /\ PastedLinear = LastLinear
    /\ sprite_idx = 40960 /\ tui_idx = 2560 /\ emoji_idx = 768

(* C2: the linear ranges are sprite [0, 40959], TUI [40960, 43519], emoji  *)
(* [43520, 44287], CJK [44288, 48383]; each base is the previous base plus  *)
(* the previous total, the stamping counters end on these totals, and the   *)
(* symbol map's linear_index section reports these bases and totals.        *)
C2_ContiguousRanges ==
    LET sp == Region(cfg, "sprite")
        tu == Region(cfg, "tui")
        em == Region(cfg, "emoji")
        cj == Region(cfg, "cjk")
    IN  /\ <<sp.base, sp.base + sp.total - 1>> = <<0, 40959>>
        /\ <<tu.base, tu.base + tu.total - 1>> = <<40960, 43519>>
        /\ <<em.base, em.base + em.total - 1>> = <<43520, 44287>>
        /\ <<cj.base, cj.base + cj.total - 1>> = <<44288, 48383>>
        /\ tu.base = sp.base + sp.total
        /\ em.base = tu.base + tu.total
        /\ cj.base = em.base + em.total
        /\ sprite_idx <= sp.total /\ tui_idx <= tu.total
        /\ emoji_idx <= em.total /\ cjk_idx <= cj.total
        /\ pc \in {"emoji", "cjk", "save", "map", "done"} => tu.base + tui_idx = em.base
        /\ pc \in {"cjk", "save", "map", "done"} => em.base + emoji_idx = cj.base
        /\ pc \in {"save", "map", "done"} => cj.base + cjk_idx = LastLinear + 1
        /\ pc = "done" =>
              symbol_map.linear_index =
                  [ sprite_base |-> 0, sprite_total |-> 40960,
                    tui_base |-> 40960, tui_total |-> 2560,
                    emoji_base |-> 43520, emoji_total |-> 768,
                    cjk_base |-> 44288, cjk_total |-> 4096 ]

C2_Witness ==
    /\ pc = "done" /\ sprite_idx = 40960
    /\ symbol_map.linear_index.cjk_base + symbol_map.linear_index.cjk_total = LastLinear + 1

\* a rectangle with every coordinate multiplied by k
ScaleRect(r, k) == Rect(r.x * k, r.y * k, r.w * k, r.h * k)

\* the rectangle of the tile with index idx of a region under configuration c
TileRect(c, name, idx) ==
    LET per == Region(c, name).per
        b == idx \div per
        s == idx % per
        r == s \div SlotsPerRow(name)
        cl == s % SlotsPerRow(name)
    IN  CASE name = "sprite" ->
               LET xy == CellPos(SpriteBlockOrigin(c, b), r, cl,
                                 c.SPRITE_CHAR_SIZE, c.SPRITE_CHAR_SIZE)
               IN  Rect(xy[1], xy[2], SpriteTileSize(c)[1], SpriteTileSize(c)[2])
          [] name = "tui" ->
               LET xy == CellPos(TuiBlockOrigin(c, b), r, cl,
                                 c.TUI_CHAR_WIDTH, c.TUI_CHAR_HEIGHT)
               IN  Rect(xy[1], xy[2], TuiTileSize(c)[1], TuiTileSize(c)[2])
          [] name = "emoji" ->
               LET xy == CellPos(EmojiBlockOrigin(c, b), r, cl,
                                 c.EMOJI_CHAR_SIZE, c.EMOJI_CHAR_SIZE)
               IN  Rect(xy[1], xy[2], EmojiTileSize(c)[1], EmojiTileSize(c)[2])
          [] name = "cjk" ->
               LET xy == CjkPos(c, idx)
               IN  Rect(xy[1], xy[2], CjkTileSize(c)[1], CjkTileSize(c)[2])

(* C3: the 4096 and the 8192 configuration have the same block counts,     *)
(* chars per block, grid size and linear bases; every pixel quantity of the *)
(* 8192 configuration is twice the 4096 one; a stamped tile has the same    *)
(* (block, slot) or (row, col) at both sizes and its rectangle is the 4096  *)
(* rectangle times the scale; the symbol map is the same document.          *)
C3_ScaleInvariance ==
    LET c1 == TextureConfig(4096)
        c2 == TextureConfig(8192)
    IN  /\ c1.scale = 1 /\ c2.scale = 2
        /\ \A f \in DOMAIN GridConstants : c1[f] = c2[f] /\ cfg[f] = c1[f]
        /\ \A f \in DOMAIN PixelSizes(1) : c2[f] = 2 * c1[f] /\ cfg[f] = cfg.scale * c1[f]
        /\ pasted.region # "none" =>
              /\ Locate(c1, PastedLinear) = Locate(c2, PastedLinear)
              /\ Locate(c1, PastedLinear) =
                    [region |-> pasted.region, major |-> PastedMajor, minor |-> PastedMinor]
              /\ pasted.rect = ScaleRect(TileRect(c1, pasted.region, pasted.idx), cfg.scale)
        /\ pc = "done" =>
              /\ symbol_map = build_symbol_map(c1, tui_txt.tui_chars, tui_txt.emojis, cjk_chars)
              /\ symbol_map = build_symbol_map(c2, tui_txt.tui_chars, tui_txt.emojis, cjk_chars)

\* the last emoji tile at 8192: same slot as at 4096, twice the pixel coordinate
C3_Witness ==
    /\ cfg.size = 8192
    /\ pasted.region = "emoji" /\ pasted.idx = 767
    /\ pasted.block = 5 /\ pasted.row = 15 /\ pasted.col = 7
    /\ pasted.rect = Rect(2 * 4064, 2 * 3040, 64, 64)

\* pixel start of a region: the sprite region starts at the canvas origin
RegionStart(c, name) ==
    CASE name = "sprite" -> <<0, 0>>
      [] name = "tui" -> <<0, c.TUI_AREA_START_Y>>
      [] name = "emoji" -> <<c.EMOJI_AREA_START_X, c.EMOJI_AREA_START_Y>>

\* a region's own block pixel width and height
BlockPixelSize(c, name) ==
    CASE name = "sprite" -> <<c.SPRITE_BLOCK_SIZE, c.SPRITE_BLOCK_SIZE>>
      [] name = "tui" -> <<c.TUI_BLOCK_WIDTH, c.TUI_BLOCK_HEIGHT>>
      [] name = "emoji" -> <<c.EMOJI_BLOCK_WIDTH, c.EMOJI_BLOCK_HEIGHT>>

(* C4 as stated: in every block region the block of linear index i has      *)
(* blockIndex = (i - base) // charsPerBlock and its pixel origin is          *)
(* ((blockIndex % 16) * blockPixelWidth, (blockIndex // 16) * blockPixelHeight). *)
C4_AsStated ==
    pasted.region \in BlockRegions =>
        LET b == pasted.idx \div Region(cfg, pasted.region).per
            wh == BlockPixelSize(cfg, pasted.region)
        IN  /\ pasted.block = b
            /\ pasted.bx = (b % cfg.BLOCKS_PER_ROW) * wh[1]
            /\ pasted.by = (b \div cfg.BLOCKS_PER_ROW) * wh[2]

(* C4 amended: the block origin is the region's pixel start plus            *)
(* ((blockIndex % 16) * blockPixelWidth, (blockIndex // 16) * blockPixelHeight); *)
(* the start is (0, 0) for sprite, (0, 2560 s) for TUI, (2560 s, 2560 s) for emoji. *)
C4_BlockOrigin ==
    pasted.region \in BlockRegions =>
        LET b == pasted.idx \div Region(cfg, pasted.region).per
            wh == BlockPixelSize(cfg, pasted.region)
            st == RegionStart(cfg, pasted.region)
        IN  /\ pasted.block = b
            /\ pasted.bx = st[1] + (b % cfg.BLOCKS_PER_ROW) * wh[1]
            /\ pasted.by = st[2] + (b \div cfg.BLOCKS_PER_ROW) * wh[2]
            /\ st = <<IF pasted.region = "emoji" THEN 2560 * cfg.scale ELSE 0,
                      IF pasted.region = "sprite" THEN 0 ELSE 2560 * cfg.scale>>

\* the last emoji block, stamped to the right of the TUI blocks in the row at 2560 s
C4_Witness ==
    /\ pasted.region = "emoji" /\ pasted.block = 5
    /\ pasted.bx = cfg.scale * (2560 + 5 * 256) /\ pasted.by = cfg.scale * 2560

(* C5: slot s of a block is placed at column s % slotsPerRow and row        *)
(* s // slotsPerRow of the block (16 per row for sprite and TUI, 8 for      *)
(* emoji), scaled by the cell size; at scale 1, sprite index 2815 is block  *)
(* 10 at pixel (10 * blockPixelWidth, 0), slot 255 at sub-cell (15, 15).    *)
C5_SlotPlacement ==
    pasted.region \in BlockRegions =>
        LET s == pasted.idx % Region(cfg, pasted.region).per
            per_row == SlotsPerRow(pasted.region)
        IN  /\ pasted.col = s % per_row
            /\ pasted.row = s \div per_row
            /\ pasted.rect.x - pasted.bx = (s % per_row) * pasted.rect.w
            /\ pasted.rect.y - pasted.by = (s \div per_row) * pasted.rect.h
            /\ pasted.region = "sprite" /\ cfg.scale = 1 /\ pasted.idx = 2815 =>
                  /\ pasted.block = 10 /\ s = 255
                  /\ <<pasted.bx, pasted.by>> = <<10 * cfg.SPRITE_BLOCK_SIZE, 0>>
                  /\ <<pasted.col, pasted.row>> = <<15, 15>>
                  /\ pasted.rect = Rect(2560 + 15 * 16, 15 * 16, 16, 16)

C5_Witness == pasted.region = "sprite" /\ cfg.scale = 1 /\ pasted.idx = 2815

(* C6: the CJK character at list position i is stamped at                   *)
(* (col * cellW, gridStartY + row * cellH) with col = i % 128, row = i // 128, *)
(* and every mappings entry of the symbol map is [col, row] of a cell where  *)
(* the tile of that character was stamped.                                  *)
C6_MapAgreesWithAtlas ==
    /\ pasted.region = "cjk" =>
          /\ pasted.col = pasted.idx % 128 /\ pasted.row = pasted.idx \div 128
          /\ pasted.rect.x = pasted.col * cfg.CJK_CHAR_SIZE
          /\ pasted.rect.y = cfg.CJK_AREA_START_Y + pasted.row * cfg.CJK_CHAR_SIZE
    /\ pc = "done" =>
          \A ch \in DOMAIN symbol_map.regions.cjk.mappings :
              LET m == symbol_map.regions.cjk.mappings[ch]
                  i == m[2] * cfg.CJK_GRID_COLS + m[1]
              IN  /\ m[1] \in 0 .. cfg.CJK_GRID_COLS - 1
                  /\ i < cjk_idx
                  /\ i < cjk_chars.len /\ CjkChar(cjk_chars, i) = ch

(* C7: the target rectangle of every stamped tile is disjoint from every    *)
(* rectangle stamped before it, in all four regions and at both sizes.      *)
C7_DisjointStamps ==
    [][pasted' # pasted => \A a \in texture : Disjoint(a, pasted'.rect)]_vars

\* every region stamped, and the written rectangles make up the whole canvas once
C7_Witness ==
    /\ pc = "done"
    /\ saved = {Rect(0, 0, cfg.size, cfg.size)}
    /\ sprite_idx + tui_idx + emoji_idx + cjk_idx = LastLinear + 1

-----------------------------------------------------------------------------
(* bitmap_to_sdf: the field of a square *)

Adjacent(p, q) == Dist2(p, q) = 1

\* distance of an inside pixel's far side to the border of a shape that fills
\* the image
BorderDist(img, p) == Min(Min(p[1] + 1, p[2] + 1), Min(img.h - p[1], img.w - p[2]))

\* squared distance of p, on the side own, to the nearest pixel of the side other
TrueDist2(img, p, other) ==
    IF other = {} THEN BorderDist(img, p) * BorderDist(img, p)
    ELSE LET ds == {Dist2(p, q) : q \in other}
         IN  CHOOSE d \in ds : \A e \in ds : d <= e

\* the pixels of one side with a neighbour on the other side
EdgePixels(own, other) == {p \in own : \E q \in other : Adjacent(p, q)}

\* the inside pixels fill a square
IsSquare(ins) ==
    /\ ins # {}
    /\ LET ys == {p[1] : p \in ins}
           xs == {p[2] : p \in ins}
       IN  /\ Cardinality(ys) = Cardinality(xs)
           /\ \A y \in ys, x \in xs : <<y, x>> \in ins
           /\ \A y \in ys : \A z \in ys : (y < z) => \A m \in y .. z : m \in ys
           /\ \A x \in xs : \A z \in xs : (x < z) => \A m \in x .. z : m \in xs

SdfDone == sdf_img # NoImage /\ IsSquare(Inside(bitmap_img))

\* more than s inside encodes >= 0.99, more than s outside <= 0.01
Saturates(ins, outs) ==
    /\ \A p \in ins :
          TrueDist2(bitmap_img, p, outs) > spread * spread => 100 * sdf_img.px[p][1] >= 99 * 255
    /\ \A p \in outs :
          TrueDist2(bitmap_img, p, ins) > spread * spread => 100 * sdf_img.px[p][1] <= 255

C9_GreyOpaqueSameSize ==
    [][sdf_img' # sdf_img =>
          /\ bitmap_img' = bitmap_img
          /\ sdf_img'.w = bitmap_img.w /\ sdf_img'.h = bitmap_img.h
          /\ DOMAIN sdf_img'.px = Pixels(bitmap_img)
          /\ \A p \in Pixels(bitmap_img) :
                /\ sdf_img'.px[p][1] = sdf_img'.px[p][2]
                /\ sdf_img'.px[p][2] = sdf_img'.px[p][3]
                /\ sdf_img'.px[p][4] = 255]_vars

C9_Witness ==
    /\ sdf_img # NoImage
    /\ sdf_img.w = SmallWidth
    /\ bitmap_img \in FreeBitmaps
    /\ \E p \in Pixels(bitmap_img), q \in Pixels(bitmap_img) :
          /\ bitmap_img.px[p][4] = 127 /\ bitmap_img.px[q][4] = 128
          /\ sdf_img.px[p][1] < sdf_img.px[q][1]

-----------------------------------------------------------------------------
(* compute_msdf_params: where the metric lines land *)

ParamsDone == msdf_params # NoParams

AscentEm == Frac(get_font_metrics(font).ascent, get_font_metrics(font).upm)
DescentEm == Frac(get_font_metrics(font).descent, get_font_metrics(font).upm)

\* the pixel row of the line at em height y: scale * (y + translateY)
PixelRow(y) == FracMul(msdf_params.scale, FracAdd(y, msdf_params.ty))

\* C10 as stated: with margin the spread in pixels, scale = (cellHeight -
\* 2 margin) / (ascentEm - descentEm) and translateY = margin / scale -
\* descentEm; the descent line lands on pixel row margin and the ascent line on
\* pixel row cellHeight - margin.
C10_AsStated ==
    ParamsDone =>
        LET margin == Whole(target.pxrange)
        IN  /\ FracEq(msdf_params.scale,
                      FracDiv(Whole(target.h - 2 * target.pxrange), FracSub(AscentEm, DescentEm)))
            /\ FracEq(msdf_params.ty, FracSub(FracDiv(margin, msdf_params.scale), DescentEm))
            /\ FracEq(PixelRow(DescentEm), margin)
            /\ FracEq(PixelRow(AscentEm), Whole(target.h - target.pxrange))

\* C10: the placement parameters reserve no margin for the spread: scale =
\* cellHeight * padding / (ascentEm - descentEm) and translateY = -descentEm,
\* so the font's descent line lands on pixel row 0 and its ascent line on
\* pixel row cellHeight * padding, whatever the spread.
C10_PaddingPlacement ==
    ParamsDone =>
        /\ FracEq(FracMul(msdf_params.scale, FracSub(AscentEm, DescentEm)),
                  Frac(target.h * target.padding, 100))
        /\ FracEq(FracAdd(msdf_params.ty, DescentEm), Whole(0))
        /\ FracEq(PixelRow(DescentEm), Whole(0))
        /\ FracEq(PixelRow(AscentEm), Frac(target.h * target.padding, 100))

C10_Witness ==
    /\ ParamsDone
    /\ target.padding = 92 /\ target.pxrange = MaxPxrange
    /\ font.usWinAscent > font.sTypoAscender
    /\ -font.usWinDescent < font.sTypoDescender
    /\ msdf_params.ty[1] > 0

-----------------------------------------------------------------------------
(* The render loops: placement parameters *)

\* the pixel row of the baseline (em height 0) under placement parameters p
BaselineRow(p) == FracMul(p.scale, p.ty)

\* the pixel column of em abscissa 0 under placement parameters p
OriginColumn(p) == FracMul(p.scale, p.tx)

\* C11: the placement parameters are computed before the loop and no loop
\* iteration changes them; any two glyphs handed to the vector generator with
\* the same font and the same padding class get the same (scale, tx, ty), the
\* entry of the dict of their class, hence the same baseline row and the same
\* horizontal placement.
C11_PlacementUniform ==
    [][/\ render_pc = "loop" => font_params' = font_params
       /\ \A a \in msdfgen_calls' : \A b \in msdfgen_calls' :
             (a.font = b.font /\ a.graphic = b.graphic) =>
                 /\ a.params = b.params
                 /\ a.params = (IF a.graphic THEN font_params.graphic
                                ELSE font_params.text)[a.font]
                 /\ BaselineRow(a.params) = BaselineRow(b.params)
                 /\ OriginColumn(a.params) = OriginColumn(b.params)]_vars

C11_Witness ==
    /\ render_pc = "returned"
    /\ render_in.region = "tui"
    /\ \E a \in msdfgen_calls : \E b \in msdfgen_calls :
          /\ a.cp = 103 /\ b.cp = 84
          /\ a.font = b.font
          /\ a.params = b.params
          /\ a.params.scale[1] > 0

-----------------------------------------------------------------------------
(* The render loops: tiers and terminal states *)

FieldRegion == render_in.use_msdf /\ render_in.region \in {"tui", "cjk"}

\* C12: in a distance-field region every slot the resolver has taken up ends
\* in exactly one of Vector, BitmapConvertedToField, Blank; the vector tier
\* is tried before the bitmap tier, and a tier is tried only if the tiers
\* before it gave no tile.
C12_OneTerminalInOrder ==
    (FieldRegion /\ resolved.i >= 0) =>
        /\ resolved.terminal \in {"Vector", "BitmapConvertedToField", "Blank"}
        /\ resolved.tried \in {<<>>, <<"vector">>, <<"bitmap">>, <<"vector", "bitmap">>}
        /\ resolved.terminal = "Vector" => resolved.tried = <<"vector">>
        /\ resolved.terminal = "BitmapConvertedToField" =>
              resolved.tried # <<>> /\ resolved.tried[Len(resolved.tried)] = "bitmap"

\* C13: the resolver keeps a count per terminal state and every resolved slot
\* increments exactly one of them, so that in a distance-field region the
\* counts it keeps sum to the number of slots resolved.
C13_CountsSumToSlots ==
    (FieldRegion /\ render_pc \in {"loop", "returned"}) =>
        /\ RunsLen(symbols) = slot_i
        /\ msdf_count + sdf_fallback_count = RunsLen(symbols)

-----------------------------------------------------------------------------
(* The placeholder tile *)

\* C14: the placeholder of a slot left Blank is opaque black in a
\* distance-field region (TUI or CJK rendered with use_msdf) and transparent
\* in a plain-bitmap region (emoji always, TUI or CJK in bitmap mode), and
\* has exactly the cell size of its region.
C14_PlaceholderByRegion ==
    /\ \A k \in { j \in 1 .. Len(symbols) : symbols[j].tile.kind = "blank" } :
          /\ symbols[k].tile.rgba = (IF FieldRegion THEN <<0, 0, 0, 255>> ELSE <<0, 0, 0, 0>>)
          /\ <<symbols[k].tile.w, symbols[k].tile.h>> = RegionCell(cfg, render_in.region)
    /\ (resolved.i >= 0 /\ resolved.terminal = "Blank") =>
          /\ resolved.tile.kind = "blank"
          /\ FieldRegion => resolved.tile.rgba = <<0, 0, 0, 255>>
          /\ ~FieldRegion => resolved.tile.rgba = <<0, 0, 0, 0>>
          /\ render_in.region = "emoji" => resolved.tile.rgba = <<0, 0, 0, 0>>

C14_Witness ==
    /\ render_pc = "returned"
    /\ FieldRegion
    /\ render_in.region = "tui"
    /\ cfg.scale = 2
    /\ Len(symbols) >= 3
    /\ symbols[2].tile.kind = "blank"
    /\ symbols[2].tile.rgba = <<0, 0, 0, 255>>
    /\ <<symbols[2].tile.w, symbols[2].tile.h>> = <<32, 64>>

-----------------------------------------------------------------------------
(* Failures: font metrics, per-character rendering *)

\* C15: when the metrics of a font of a distance-field region cannot be
\* read, the run aborts before the loop: it never goes on to resolve slots
\* with that font's parameters missing.
C15_UnreadableMetricsAbort ==
    (/\ FieldRegion
     /\ \E name \in (IF render_in.region = "tui" THEN {"tui", "braille"} ELSE {"cjk"}) :
           FontNamed(render_in, name).exists /\ ~FontNamed(render_in, name).readable) =>
        /\ render_pc \notin {"loop", "returned"}
        /\ slot_i = 0

\* C16: a failure of the vector generator or of the rasterizer on one
\* character never aborts the build: the slot still gets a tile (of a later
\* tier or the blank tile) and the loop goes on to the next slot.
C16_FailureNeverAborts ==
    /\ render_pc # "aborted"
    /\ (render_pc \in {"loop", "returned"} /\ resolved.i >= 0) =>
          /\ resolved.tile # NoTile
          /\ slot_i = resolved.i + 1
          /\ RunsLen(symbols) = slot_i

-----------------------------------------------------------------------------
(* Capacity of the regions *)

\* C17: a character list longer than its region holds is cut to the
\* capacity, so that the written symbol map lists no more TUI and emoji
\* symbols than their regions have slots and every CJK mapping is a cell
\* [col, row] of the grid, 0 <= col < 128 and 0 <= row < 32, that was stamped.
C17_OverCapacityTruncated ==
    pc = "done" =>
        /\ Len(symbol_map.regions.tui.symbols) <= TuiImagesLen(cfg)
        /\ Len(symbol_map.regions.emoji.symbols) <= EmojiImagesLen(cfg)
        /\ Cardinality(DOMAIN symbol_map.regions.cjk.mappings) <= CjkImagesLen(cfg)
        /\ \A ch \in DOMAIN symbol_map.regions.cjk.mappings :
              /\ symbol_map.regions.cjk.mappings[ch][1] \in 0 .. 127
              /\ symbol_map.regions.cjk.mappings[ch][2] \in 0 .. 31

-----------------------------------------------------------------------------
(* The size check of TextureConfig *)

\* C18: constructing the configuration for a size other than 4096 or 8192
\* fails with the invalid-configuration error and yields no configuration;
\* for 4096 the scale is 1 and for 8192 it is 2.
C18_InvalidSizeRejected ==
    /\ size_arg \notin {4096, 8192} =>
          /\ cfg = NoConfig
          /\ (cfg # NoConfig \/ config_error # "none") => config_error = "ValueError"
    /\ ((cfg # NoConfig \/ config_error # "none") /\ size_arg \in {4096, 8192}) =>
          /\ config_error = "none"
          /\ cfg.size = size_arg
          /\ cfg.scale = (IF size_arg = 4096 THEN 1 ELSE 2)

C18_Witness ==
    /\ size_arg = 8191
    /\ config_error = "ValueError"
    /\ cfg = NoConfig

-----------------------------------------------------------------------------
(* The order of the stamping loops and of the two writes *)

\* the order in which main stamps the regions
RegionOrder(region) ==
    IF region = "none" THEN 0
    ELSE IF region = "sprite" THEN 1
    ELSE IF region = "tui" THEN 2
    ELSE IF region = "emoji" THEN 3 ELSE 4

\* C19 as stated: once a region's loop is left, its full slot range has
\* been walked, the sprite region included.
C19_AsStated ==
    /\ pc # "sprite" => sprite_idx = linear_index(cfg).sprite_total
    /\ pc \notin {"sprite", "tui"} => tui_idx = linear_index(cfg).tui_total
    /\ pc \notin {"sprite", "tui", "emoji"} => emoji_idx = linear_index(cfg).emoji_total
    /\ pc \notin {"sprite", "tui", "emoji", "cjk"} => cjk_idx = linear_index(cfg).cjk_total

\* what has been walked and written at each position of main
WalkProgress ==
    /\ pc # "sprite" => sprite_idx = Min(all_sprites, linear_index(cfg).sprite_total)
    /\ pc \notin {"sprite", "tui"} => tui_idx = linear_index(cfg).tui_total
    /\ pc \notin {"sprite", "tui", "emoji"} => emoji_idx = linear_index(cfg).emoji_total
    /\ pc \notin {"sprite", "tui", "emoji", "cjk"} => cjk_idx = linear_index(cfg).cjk_total
    /\ pc \in {"sprite", "tui", "emoji", "cjk", "save"} => saved = "none"
    /\ pc # "done" => symbol_map = "none"
    /\ pc \in {"map", "done"} => saved = texture

\* C19 (amended): each region is walked once, from slot 0 upwards by one,
\* the regions in the order sprite, TUI, emoji, CJK; the TUI, emoji and CJK
\* regions over their full slot range and the sprite region over the slots
\* for which a sprite was loaded; no stamp touches a rectangle written
\* before; the image and then the symbol map are written only after the
\* last region has been walked.
C19_WalkOnceInOrder ==
    [][/\ pasted' # pasted =>
             /\ pc \in {"sprite", "tui", "emoji", "cjk"} /\ pasted'.region = pc
             /\ \A a \in texture : Disjoint(a, pasted'.rect)
             /\ IF pasted'.region = pasted.region
                THEN pasted'.idx = pasted.idx + 1
                ELSE /\ pasted'.idx = 0
                     /\ RegionOrder(pasted.region) < RegionOrder(pasted'.region)
       /\ WalkProgress']_vars

C19_Witness ==
    /\ pc = "done"
    /\ all_sprites = NumC64Sources * SheetSymbols
    /\ sprite_idx = all_sprites /\ sprite_idx < linear_index(cfg).sprite_total
    /\ tui_idx = 2560 /\ emoji_idx = 768 /\ cjk_idx = 4096
    /\ pasted.region = "cjk" /\ pasted.idx = 4095
    /\ saved = texture

-----------------------------------------------------------------------------
(* Graphic characters and their padding *)

\* box drawing, block elements, braille patterns, private use (U+E000-F8FF,
\* U+F0000-FFFFD, U+100000-10FFFD)
InGraphicRanges(cp) ==
    \/ (9472 <= cp /\ cp <= 9599)
    \/ (9600 <= cp /\ cp <= 9631)
    \/ (10240 <= cp /\ cp <= 10495)
    \/ (57344 <= cp /\ cp <= 63743)
    \/ (983040 <= cp /\ cp <= 1048573)
    \/ (1048576 <= cp /\ cp <= 1114109)

\* C20: a TUI character is rendered as graphic exactly when its code point
\* is in the box-drawing, block-element, braille or private-use ranges: then
\* the vector path takes the padding-1.0 parameters and the bitmap path
\* padding 1.0, and every other character gets the configured text_padding
\* in both paths.
C20_GraphicExactlyInRanges ==
    (render_in.region = "tui" /\ resolved.i >= 0 /\ resolved.i < Len(render_in.chars)) =>
        /\ is_graphic_char(resolved.cp) = InGraphicRanges(resolved.cp)
        /\ resolved.call # NoCall =>
              /\ resolved.call.graphic = InGraphicRanges(resolved.cp)
              /\ resolved.call.params =
                    (IF InGraphicRanges(resolved.cp) THEN font_params.graphic
                     ELSE font_params.text)[resolved.call.font]
        /\ "bitmap" \in {resolved.tried[k] : k \in 1 .. Len(resolved.tried)} =>
              resolved.bitmap_padding =
                 (IF InGraphicRanges(resolved.cp) THEN 100 ELSE render_in.text_padding)

-----------------------------------------------------------------------------
(* Modes and tiers *)

\* C21: whatever the mode flags, the emoji tiles come from the cache, the
\* rasterizer or the blank fill only: no emoji slot is handed to the vector
\* generator or converted to a distance field.
C21_EmojiNeverField ==
    render_in.region = "emoji" =>
        /\ msdfgen_calls = {}
        /\ msdf_count = 0 /\ sdf_fallback_count = 0
        /\ \A k \in 1 .. Len(symbols) : symbols[k].tile.kind \in {"file", "bitmap", "blank"}
        /\ resolved.i >= 0 =>
              /\ resolved.call = NoCall
              /\ resolved.terminal \in {"File", "Bitmap", "Blank", "Raised"}
              /\ \A k \in 1 .. Len(resolved.tried) : resolved.tried[k] \in {"file", "bitmap"}

C21_Witness ==
    /\ render_in.region = "emoji"
    /\ render_in.use_msdf /\ render_in.tui_sdf
    /\ render_pc = "returned"
    /\ Len(symbols) >= 2
    /\ symbols[1].tile.kind = "bitmap"
    /\ RunsLen(symbols) = 768

\* C22: with --msdf and without --sdf (for the TUI call: use_msdf set and
\* tui_sdf not; the CJK call is the same with either flag) a TUI character
\* that a readable vector font has (braille apart) and every CJK character
\* is handed to the vector generator first, and its bitmap tier is tried
\* only after the vector generator gave nothing.
C22_MsdfgenFirst ==
    (FieldRegion /\ resolved.i >= 0 /\ resolved.i < Len(render_in.chars)) =>
        /\ (/\ render_in.region = "tui" /\ ~render_in.tui_sdf
            /\ ~(10240 <= resolved.cp /\ resolved.cp <= 10495)
            /\ find_tui_font_for_char(render_in, resolved.cp) # "none"
            /\ FontNamed(render_in, find_tui_font_for_char(render_in, resolved.cp)).readable) =>
               resolved.tried[1] = "vector"
        /\ render_in.region = "cjk" =>
               /\ resolved.tried # <<>> => resolved.tried[1] = "vector"
               /\ resolved.terminal = "BitmapConvertedToField" =>
                     resolved.tried = <<"vector", "bitmap">>

\* C23: in a distance-field TUI run a braille character, and with tui_sdf
\* every character, is never handed to the vector generator and never ends
\* Vector: it ends BitmapConvertedToField or Blank, whatever the vector
\* fonts contain.
C23_PreferBitmapNeverVector ==
    (/\ FieldRegion /\ render_in.region = "tui"
     /\ resolved.i >= 0 /\ resolved.i < Len(render_in.chars)
     /\ render_in.tui_sdf \/ (10240 <= resolved.cp /\ resolved.cp <= 10495)) =>
        /\ resolved.call = NoCall
        /\ \A k \in 1 .. Len(resolved.tried) : resolved.tried[k] # "vector"
        /\ resolved.terminal \in {"BitmapConvertedToField", "Blank"}

-----------------------------------------------------------------------------
(* The distance range of the two tiers *)

\* C27: for a tile of the bitmap tier of a distance-field region, the
\* spread handed to bitmap_to_sdf divided by the factor by which the
\* rendered image is scaled down to the cell, in width and in height, is
\* msdf_pxrange, the range of the vector tiles in cell pixels.
C27_SameRangeBothTiers ==
    (FieldRegion /\ resolved.i >= 0 /\ resolved.terminal = "BitmapConvertedToField") =>
        LET render == FieldRenderSize(cfg, render_in.region)
            cell == RegionCell(cfg, render_in.region)
        IN  /\ <<resolved.tile.w, resolved.tile.h>> = cell
            /\ FracDiv(Whole(SdfSpread(render_in)), Frac(render[1], cell[1]))
                  = Whole(render_in.msdf_pxrange)
            /\ FracDiv(Whole(SdfSpread(render_in)), Frac(render[2], cell[2]))
                  = Whole(render_in.msdf_pxrange)

-----------------------------------------------------------------------------
(* What the render functions return *)

-----------------------------------------------------------------------------
(* Stamps stay inside the canvas and inside their region *)

\* C29: with s the scale, every stamped rectangle lies inside the
\* 4096s x 4096s canvas and inside the rectangle of its region: sprite rows
\* [0, 2560s), TUI x in [0, 2560s) and emoji x in [2560s, 4096s) of rows
\* [2560s, 3072s), CJK rows [3072s, 4096s); the four rectangles are pairwise
\* disjoint and their areas add up to the canvas.
C29_StampsInsideRegion ==
    LET s == cfg.scale
        area == [ sprite |-> Rect(0, 0, 4096 * s, 2560 * s),
                  tui |-> Rect(0, 2560 * s, 2560 * s, 512 * s),
                  emoji |-> Rect(2560 * s, 2560 * s, 1536 * s, 512 * s),
                  cjk |-> Rect(0, 3072 * s, 4096 * s, 1024 * s) ]
        Within(a, b) == /\ b.x <= a.x /\ a.x + a.w <= b.x + b.w
                        /\ b.y <= a.y /\ a.y + a.h <= b.y + b.h
        \* areas counted in 256s x 256s squares
        Squares(a) == (a.w \div (256 * s)) * (a.h \div (256 * s))
    IN  /\ cfg.size = 4096 * s
        /\ \A p \in DOMAIN area : \A q \in DOMAIN area : p # q => Disjoint(area[p], area[q])
        /\ \A p \in DOMAIN area : Within(area[p], Rect(0, 0, cfg.size, cfg.size))
        /\ Squares(area.sprite) + Squares(area.tui) + Squares(area.emoji) + Squares(area.cjk)
              = 16 * 16
        /\ pasted.region # "none" =>
              /\ pasted.rect.w > 0 /\ pasted.rect.h > 0
              /\ Within(pasted.rect, Rect(0, 0, cfg.size, cfg.size))
              /\ Within(pasted.rect, area[pasted.region])

C29_Witness ==
    /\ pc = "done"
    /\ cfg.scale = 2
    /\ pasted.region = "cjk"
    /\ pasted.rect.x + pasted.rect.w = 8192
    /\ pasted.rect.y + pasted.rect.h = 8192

-----------------------------------------------------------------------------
(* Quartz font size *)

\* hi - lo after i halvings of [1, 512]: 2^(33 - i) grid units
WidthAfter(i) == IF i <= 17 THEN <<2 ^ (17 - i), 0>> ELSE <<0, 2 ^ (33 - i)>>

\* C24: solve_font_size_for_height returns after exactly 32 bisection steps
\* over [1, 512]; after every step lo <= hi and the interval is half the
\* previous one (511 / 2^32, two grid units, at the end); the returned size
\* lies in [lo, hi]; and for a line height increasing in the size with
\* height(1) < target <= height(512), height(lo) < target <= height(hi) holds
\* after every step.
C24_BisectionBrackets ==
    /\ size_pc = "bisect" =>
          /\ bisect_i \in 0 .. BisectSteps
          /\ GridLeq(GridLo, solve_lo) /\ GridLeq(solve_lo, solve_hi) /\ GridLeq(solve_hi, GridHi)
          /\ GridWidth(solve_lo, solve_hi) = WidthAfter(bisect_i)
          /\ ( /\ quartz_font.kind = "increasing"
               /\ HeightBelow(quartz_font, size_call.padding, GridLo)
               /\ ~HeightBelow(quartz_font, size_call.padding, GridHi) )
             => /\ HeightBelow(quartz_font, size_call.padding, solve_lo)
                /\ ~HeightBelow(quartz_font, size_call.padding, solve_hi)
    /\ (size_pc = "idle" /\ size_call # NoQuartzCall /\ size_h # GridLo) =>
          /\ bisect_i = BisectSteps
          /\ GridWidth(solve_lo, solve_hi) = <<0, 2>>
          /\ GridLeq(solve_lo, size_h) /\ GridLeq(size_h, solve_hi)

C24_Witness ==
    /\ size_pc = "idle"
    /\ bisect_i = BisectSteps
    /\ quartz_font = QuartzFont("increasing", <<12345, 6789>>, <<13419, 100>>)
    /\ size_call.padding = 92
    /\ solve_lo = <<12345, 6788>>
    /\ solve_hi = <<12345, 6790>>
    /\ size_h = <<12345, 6789>>

\* C25: apply_width_constraint never enlarges the size: it returns the size
\* unchanged when the widest ink width of the probe glyphs is at most
\* cell_w * margin, and the size times cell_w * margin / worst, strictly
\* smaller, otherwise; a graphic (fill_cell) character takes the size solved
\* from the height, with no width constraint.
C25_WidthNeverEnlarges ==
    [][(size_pc = "bisect" /\ size_pc' = "idle") =>
        LET limit == FracMul(Whole(size_call.width), WidthMargin)
            got == actual_font_size'
            cached == font_size_cache'[CacheKey(size_call)]
        IN  /\ got.base = size_h'
            /\ FracLeq(got.factor, Whole(1))
            /\ size_call.fill_cell =>
                  /\ got.factor = Whole(1)
                  /\ size_call.padding = 100
                  /\ font_size_cache' = font_size_cache
            /\ ~size_call.fill_cell =>
                  /\ cached = [cached |-> TRUE, size |-> got]
                  /\ FracLeq(width_worst', limit) => got.factor = Whole(1)
                  /\ ~FracLeq(width_worst', limit) =>
                        /\ FracEq(FracMul(got.factor, width_worst'), limit)
                        /\ ~FracLeq(Whole(1), got.factor)]_vars

C25_Witness ==
    /\ size_pc = "idle"
    /\ ~size_call.fill_cell
    /\ size_call.width = 80
    /\ width_worst = Whole(160)
    /\ actual_font_size = FontSize(<<12345, 6789>>, Frac(49, 100))

\* C26: within one run each font file is loaded, and the data derived from
\* it computed, at most once, and a cached entry never changes: a repeated
\* load_font_cmap(path) or get_quartz_font_size(path, w, h, padding) returns
\* the value the first call stored (the empty map after a failed load
\* included) without reading the font or running the bisection again.
C26_LoadedOnce ==
    /\ [](\A p \in FontPaths : ttfont_opens[p] <= 1)
    /\ [][ /\ \A p \in FontPaths :
                font_cmaps[p].loaded => /\ font_cmaps'[p] = font_cmaps[p]
                                        /\ ttfont_opens'[p] = ttfont_opens[p]
           /\ \A k \in CacheKeys :
                font_size_cache[k].cached => font_size_cache'[k] = font_size_cache[k]
           /\ (size_pc = "idle" /\ size_call' # size_call /\ ~size_call'.fill_cell
                 /\ font_size_cache[CacheKey(size_call')].cached)
              => /\ size_pc' = "idle"
                 /\ actual_font_size' = font_size_cache[CacheKey(size_call')].size ]_vars

-----------------------------------------------------------------------------
(* generate_cjk *)

\* C30: for every number N >= 1 of parsed characters the 16px region
\* (ceil(N/256) rows), the 32px region (ceil(N/128) rows) and the first 64px
\* segment are stacked without vertical overlap inside the 4096 pixels of
\* cjk.png; 0 <= chars_64_layer1 <= N and chars_64_layer1 + chars_64_layer2
\* = N; the first chars_64_layer1 characters get their 64px cell in cjk.png
\* and the rest, in the same order, in cjk64.png, which fits in 4096 pixels
\* too; for N = 5935 there are 24, 47 and 34 rows, 2176 characters in layer
\* 1 and 3759 (59 rows) in layer 2.
C30_LayersHoldEveryChar ==
    (gen_pc \in {"layer1", "done"} /\ total_chars >= 1) =>
        LET N == total_chars
            p16 == gen_pastes[1]
            p32 == gen_pastes[2]
            p64 == gen_pastes[3]
        IN  /\ layout.rows_16 * 256 >= N /\ (layout.rows_16 - 1) * 256 < N
            /\ layout.rows_32 * 128 >= N /\ (layout.rows_32 - 1) * 128 < N
            /\ p16.start_y = 0 /\ p16.count = N /\ p32.count = N
            /\ PasteBottom(p16) = layout.rows_16 * 16
            /\ PasteBottom(p16) <= p32.start_y
            /\ PasteBottom(p32) = p32.start_y + layout.rows_32 * 32
            /\ PasteBottom(p32) <= p64.start_y
            /\ PasteBottom(p64) <= TEXTURE_SIZE
            /\ 0 <= layout.chars_64_layer1 /\ layout.chars_64_layer1 <= N
            /\ layout.chars_64_layer1 + layout.chars_64_layer2 = N
            /\ p64.first = 0 /\ p64.count = layout.chars_64_layer1
            /\ gen_pc = "done" =>
                  IF layout.chars_64_layer2 = 0 THEN Len(gen_pastes) = 3
                  ELSE /\ Len(gen_pastes) = 4
                       /\ gen_pastes[4].texture = "cjk64.png"
                       /\ gen_pastes[4].first = layout.chars_64_layer1
                       /\ gen_pastes[4].count = layout.chars_64_layer2
                       /\ gen_pastes[4].start_y = 0
                       /\ PasteBottom(gen_pastes[4]) <= TEXTURE_SIZE
            /\ N = 5935 =>
                  /\ layout.rows_16 = 24 /\ layout.rows_32 = 47 /\ layout.rows_64_layer1 = 34
                  /\ layout.chars_64_layer1 = 2176
                  /\ layout.chars_64_layer2 = 3759 /\ layout.rows_64_layer2 = 59

====
